---- MODULE Spec2Model ----
(***************************************************************************)
(* Conversation orchestration core of the FUE admission assistant          *)
(* (src/chatbot): the identity-collection (KYC) state machine, the answer  *)
(* pipeline with its streaming emitter, the retry wrapper around the       *)
(* generation service and the credential-keyed cache of chains.            *)
(*                                                                         *)
(* Texts are sequences of one-character strings, so that substring tests,  *)
(* splitting at the sentinel and 3-character streaming chunks are computed *)
(* as the code computes them.                                              *)
(***************************************************************************)
EXTENDS Integers, Sequences, FiniteSets, TLC

VARIABLES
    kyc,                \* cl.user_session["kyc"]: a dict, DOMAIN = keys present
    kyc_started,        \* cl.user_session["kyc_started"]
    is_kyc_complete,    \* cl.user_session["is_kyc_complete"]
    chat_context,       \* cl.chat_context: the messages of the conversation
    users_collection,   \* USERS_COLLECTION: session id -> upserted document
    save_calls,         \* calls of save_user_data_to_collection in this session
    pc,                 \* position of the message handler of the session
    msg,                \* content of the message surface being written
    pending,            \* chunks still to be passed to msg.stream_token
    response_text,      \* generator output the current turn works on
    kyc_result,         \* what handle_kyc did in the last turn
    history,            \* history handed to trim_chat_history in the last chat turn
    turn,               \* number of messages received so far
    api_key,            \* credential currently stored in the configuration
    cached_api_key,     \* utils._cached_api_key
    cached_llm_chain,   \* utils._cached_llm_chain (the key it was built with)
    cached_media_llm_chain,       \* utils._cached_media_llm_chain
    cached_media_decision_chain,  \* utils._cached_media_decision_chain
    returned_chain,     \* last chain handed out by a cache getter
    retry_outcomes,     \* outcomes the generation service gives to successive attempts
    retry_attempts,     \* attempts run_chain_with_retry made in its last call
    retry_result,       \* how the last call of run_chain_with_retry ended
    ev_text,            \* response text handed to extract_variables_from_response
    ev_case,            \* what that text was written from (flag, keyword items, format)
    ev_result,          \* what extract_variables_from_response returned for it
    trim_input,         \* raw_history handed to trim_chat_history
    trim_output,        \* the messages trim_chat_history returned for it
    trim_prev,          \* when trim_input is a returned list: that list
    stages,             \* pipeline stages the last chat turn ran, in order
    selection,          \* last chat turn: the catalog's candidates and the selector's output
    selected_images,    \* selected_images of the last chat turn
    selected_videos,    \* selected_videos of the last chat turn
    elements,           \* media elements attached to the last reply
    error_shown,        \* send_error_message was called in the last turn
    error_msg,          \* the text it was called with, or NoError
    write_failed,       \* persistence write that failed in the last turn, or "none"
    chat_storage,       \* app_settings.chat_storage in the configuration store
    storage_mode,       \* cl.user_session["storage_mode"]
    chat_history_collection,   \* CHAT_HISTORY_COLLECTION
    questions_collection,       \* QUESTIONS_COLLECTION
    auth_session,       \* dashboard: request.session of each client (its session cookie)
    auth_log,           \* dashboard: login attempts with verify_user's verdict, and logouts, per client
    auth_response,      \* dashboard: the last request and its response
    auth_requests,      \* dashboard: requests served
    val_input,          \* the string handed to the field validators
    val_result,         \* what is_valid_email, is_valid_mobile and is_valid_faculty returned
    intent,             \* detect_application_intent on the last message, or "not_called"
    over_limit,         \* the last message reached the token check and exceeded MAX_INPUT_TOKENS
    generated,          \* the guidance generator's whole output while handle_kyc streams it
    cfg_doc,            \* config collection: the document with _id "app_settings"
    cfg_update,         \* dashboard: the last update_chat_storage_setting and its result
    cfg_mode,           \* chatbot: storage_mode of the session started last, or "not_read"
    cfg_report,         \* dashboard: what get_chat_storage_setting returned last
    total_chunks,       \* upload: len(all_chunks)
    batch_size,         \* upload: chunks per batch
    max_retries,        \* upload: attempts allowed per batch
    current_batch_start,
    retry_count,
    successful_chunks,
    failed_batches,
    upload_log,         \* upload: per batch, the outcomes of its add_documents calls
    upload_pc           \* upload: "loop" or "done"

sessionVars == <<kyc, kyc_started, is_kyc_complete, chat_context, users_collection,
                 save_calls, pc, msg, pending, response_text, kyc_result, history, turn,
                 intent, over_limit>>
cacheVars == <<api_key, cached_api_key, cached_llm_chain, cached_media_llm_chain,
               cached_media_decision_chain, returned_chain>>
retryVars == <<retry_outcomes, retry_attempts, retry_result>>
envelopeVars == <<ev_text, ev_case, ev_result>>
trimVars == <<trim_input, trim_output, trim_prev>>
mediaVars == <<stages, selection, selected_images, selected_videos, elements>>
outcomeVars == <<error_shown, error_msg, write_failed>>
storageVars == <<chat_storage, storage_mode, chat_history_collection, questions_collection>>
chatVars == <<mediaVars, outcomeVars, storageVars>>
authVars == <<auth_session, auth_log, auth_response, auth_requests>>
validatorVars == <<val_input, val_result>>
streamVars == <<generated>>
configVars == <<cfg_doc, cfg_update, cfg_mode, cfg_report>>
uploadVars == <<total_chunks, batch_size, max_retries, current_batch_start, retry_count,
                successful_chunks, failed_batches, upload_log, upload_pc>>
restVars == <<authVars, validatorVars, streamVars, configVars, uploadVars>>
vars == <<sessionVars, cacheVars, retryVars, envelopeVars, trimVars, chatVars, restVars>>

----------------------------------------------------------------------------
(* Bounds of the model *)

MaxTurns == 3

\* Items between the parentheses of a control envelope
MaxKeywords == 2

\* Turns of a history handed to the trimmer
MaxHistory == 3
MaxRequests == 4

----------------------------------------------------------------------------
(* Program constants *)

END_TOKEN ==
    <<"[","E","N","D","_","R","E","S","P","O","N","S","E","]">>

STATUS_TRUE ==
    <<"C","O","M","P","L","E","T","I","O","N","_","S","T","A","T","U","S","=","t","r","u","e">>

STATUS_FALSE ==
    <<"C","O","M","P","L","E","T","I","O","N","_","S","T","A","T","U","S","=","f","a","l","s","e">>

KYC_WAIT_MSG ==
    <<"I","'","m"," ","p","r","o","c","e","s","s","i","n","g"," ","y","o","u","r"," ","i","n","f","o","r","m","a","t","i","o","n","."," ","P","l","e","a","s","e"," ","w","a","i","t",".",".",".">>

MAIN_FALLBACK_MSG ==
    <<"I"," ","a","p","o","l","o","g","i","z","e",","," ","b","u","t"," ","I"," ","c","o","u","l","d","n","'","t"," ","g","e","n","e","r","a","t","e"," ","a"," ","p","r","o","p","e","r"," ","r","e","s","p","o","n","s","e","."," ","C","o","u","l","d"," ","y","o","u"," ","p","l","e","a","s","e"," ","r","e","p","h","r","a","s","e"," ","y","o","u","r"," ","q","u","e","s","t","i","o","n","?">>

CHAIN_FALLBACK_CONTENT ==
    <<"I"," ","a","p","o","l","o","g","i","z","e",","," ","b","u","t"," ","I","'","m"," ","e","x","p","e","r","i","e","n","c","i","n","g"," ","t","e","c","h","n","i","c","a","l"," ","d","i","f","f","i","c","u","l","t","i","e","s","."," ","P","l","e","a","s","e"," ","t","r","y"," ","a","g","a","i","n",".">>

FACULTIES == <<
    <<"o","r","a","l"," ","a","n","d"," ","d","e","n","t","a","l">>,
    <<"p","h","a","r","m","a","c","y">>,
    <<"c","o","m","m","e","r","c","e"," ","a","n","d"," ","b","u","s","i","n","e","s","s"," ","a","d","m","i","n","i","s","t","r","a","t","i","o","n">>,
    <<"e","n","g","i","n","e","e","r","i","n","g">>,
    <<"c","o","m","p","u","t","e","r"," ","s","c","i","e","n","c","e">>,
    <<"e","c","o","n","o","m","i","c","s"," ","a","n","d"," ","p","o","l","i","t","i","c","a","l"," ","s","c","i","e","n","c","e">> >>

chunk_size == 3

MAX_HISTORY_TOKENS == 2000

ATTEMPT_LIMIT == 5

----------------------------------------------------------------------------
(* Text primitives: Python's str operations on sequences of characters *)

\* t in s
Contains(s, t) ==
    \E i \in 1..(Len(s) - Len(t) + 1) : SubSeq(s, i, i + Len(t) - 1) = t

\* s.find(t) + 1, for a t that occurs in s
FirstIndex(s, t) ==
    CHOOSE i \in 1..(Len(s) - Len(t) + 1) :
        /\ SubSeq(s, i, i + Len(t) - 1) = t
        /\ \A j \in 1..(i - 1) : SubSeq(s, j, j + Len(t) - 1) # t

\* s.split(t)[0]
SplitFirst(s, t) ==
    IF Contains(s, t) THEN SubSeq(s, 1, FirstIndex(s, t) - 1) ELSE s

Whitespace == {" ", "\n", "\t"}

\* s.strip()
RECURSIVE LStrip(_)
LStrip(s) ==
    IF s # <<>> /\ Head(s) \in Whitespace THEN LStrip(Tail(s)) ELSE s

RECURSIVE RStrip(_)
RStrip(s) ==
    IF s # <<>> /\ s[Len(s)] \in Whitespace THEN RStrip(SubSeq(s, 1, Len(s) - 1)) ELSE s

Strip(s) == RStrip(LStrip(s))

UpperToLower ==
    [c \in {"A","B","C","D","E","F","G","H","I","J","K","L","M",
            "N","O","P","Q","R","S","T","U","V","W","X","Y","Z"} |->
        CASE c = "A" -> "a" [] c = "B" -> "b" [] c = "C" -> "c" [] c = "D" -> "d"
          [] c = "E" -> "e" [] c = "F" -> "f" [] c = "G" -> "g" [] c = "H" -> "h"
          [] c = "I" -> "i" [] c = "J" -> "j" [] c = "K" -> "k" [] c = "L" -> "l"
          [] c = "M" -> "m" [] c = "N" -> "n" [] c = "O" -> "o" [] c = "P" -> "p"
          [] c = "Q" -> "q" [] c = "R" -> "r" [] c = "S" -> "s" [] c = "T" -> "t"
          [] c = "U" -> "u" [] c = "V" -> "v" [] c = "W" -> "w" [] c = "X" -> "x"
          [] c = "Y" -> "y" [] c = "Z" -> "z"]

\* s.lower()
Lower(s) ==
    [i \in 1..Len(s) |-> IF s[i] \in DOMAIN UpperToLower THEN UpperToLower[s[i]] ELSE s[i]]

\* text[i:i + chunk_size] for i in range(0, len(text), chunk_size)
RECURSIVE ChunksOf(_)
ChunksOf(text) ==
    IF text = <<>> THEN <<>>
    ELSE IF Len(text) <= chunk_size THEN <<text>>
    ELSE <<SubSeq(text, 1, chunk_size)>> \o ChunksOf(SubSeq(text, chunk_size + 1, Len(text)))

----------------------------------------------------------------------------
(* Field validators *)

\* \d of Python's re on str: every Unicode decimal digit; "u0663" is the one
\* character ARABIC-INDIC DIGIT THREE and stands for the digits outside ASCII
Digits == {"0","1","2","3","4","5","6","7","8","9","u0663"}

\* re.match(r"[^@]+@[^@]+\.[^@]+", email) is not None: a match of a prefix
is_valid_email(email) ==
    \E i \in 2..Len(email) :
        /\ email[i] = "@"
        /\ \A k \in 1..(i - 1) : email[k] # "@"
        /\ \E j \in (i + 2)..(Len(email) - 1) :
              /\ email[j] = "."
              /\ \A k \in (i + 1)..(j - 1) : email[k] # "@"
              /\ email[j + 1] # "@"

\* re.match(r"^\+?\d{10,15}$", mobile) is not None; $ also matches before a final newline
is_valid_mobile(mobile) ==
    LET noplus == IF mobile # <<>> /\ Head(mobile) = "+" THEN Tail(mobile) ELSE mobile
        AllDigits(t) == /\ Len(t) >= 10
                        /\ Len(t) <= 15
                        /\ \A k \in 1..Len(t) : t[k] \in Digits
    IN  \/ AllDigits(noplus)
        \/ /\ noplus # <<>>
           /\ noplus[Len(noplus)] = "\n"
           /\ AllDigits(SubSeq(noplus, 1, Len(noplus) - 1))

\* [f.lower() for f in FACULTIES]
FacultiesLower == {Lower(FACULTIES[n]) : n \in 1..Len(FACULTIES)}

\* Mutant: the input is compared as it is written
is_valid_faculty_CaseSensitive(faculty) == faculty \in FacultiesLower

\* faculty.lower() in [f.lower() for f in FACULTIES]
is_valid_faculty(faculty) == Lower(faculty) \in FacultiesLower

----------------------------------------------------------------------------
(* Python dicts: functions whose domain is the set of keys present *)

EmptyDict == [k \in {} |-> <<>>]

DictSet(d, key, value) ==
    [k \in (DOMAIN d) \cup {key} |-> IF k = key THEN value ELSE d[k]]

DictPop(d, key) ==
    [k \in (DOMAIN d) \ {key} |-> d[k]]

----------------------------------------------------------------------------
(* What the outside world can hand to one turn *)

SessionId == "s1"

\* A JSON value as handle_kyc distinguishes them: "null" is any falsy value (null,
\* a missing key, "", 0, []), "str" a non-empty string, "other" a truthy value that
\* is not a string (a number, a list, an object)
Null == [kind |-> "null", s |-> <<>>]
Str(s) == [kind |-> "str", s |-> s]
Other == [kind |-> "other", s |-> <<>>]

NameInputs == {Null, Str(<<"A","l","i">>), Other}
EmailInputs == {Null, Str(<<"a","@","b",".","c","o">>), Str(<<"a","@","b">>), Other}
MobileInputs == {Null, Str(<<"+","2","0","1","0","1","2","3","4","5","6","7","8">>),
                 Str(<<"1","2","3">>), Other}
FacultyInputs == {Null, Str(<<" ","E","n","g","i","n","e","e","r","i","n","g">>),
                  Str(<<"B","i","o","l","o","g","y">>), Other}

\* json.loads(response.content) when it is a JSON object
ExtractedObjects ==
    [name : NameInputs, email : EmailInputs, mobile : MobileInputs, faculty : FacultyInputs]

WellTyped(extracted) ==
    \A key \in DOMAIN extracted : extracted[key].kind # "other"

WellTypedObjects == {extracted \in ExtractedObjects : WellTyped(extracted)}
IllTypedObjects == ExtractedObjects \ WellTypedObjects

Body == <<"O","k">>

\* Outputs of the guidance generator (message_prompt asks for text, the sentinel,
\* then COMPLETION_STATUS=...); the generator is free to return any of them
GuidanceTexts ==
    { Body,
      Body \o END_TOKEN \o STATUS_TRUE,
      Body \o END_TOKEN \o STATUS_FALSE,
      END_TOKEN \o STATUS_TRUE,
      Body \o STATUS_TRUE }

\* Sizes of the chunks in which the generator's stream delivers its output
StreamChunkLens == {1, 5, 64}

\* The chunks of a stream that delivers text n characters at a time
RECURSIVE Delivered(_, _)
Delivered(text, n) ==
    IF text = <<>> THEN <<>>
    ELSE IF Len(text) <= n THEN <<text>>
    ELSE <<SubSeq(text, 1, n)>> \o Delivered(SubSeq(text, n + 1, Len(text)), n)

----------------------------------------------------------------------------
(* handle_kyc *)

RequiredFields == <<"name", "email", "mobile", "faculty">>

\* for key in [...]: if extracted.get(key): kyc[key] = extracted[key].strip()
\* .strip() of a value that is not a string raises AttributeError and leaves the
\* keys already written in the dict
RECURSIVE UpdateFields(_, _, _)
UpdateFields(d, extracted, i) ==
    IF i > Len(RequiredFields) THEN [kyc |-> d, raised |-> FALSE]
    ELSE LET key == RequiredFields[i]
             v == extracted[key]
         IN  IF v.kind = "null" THEN UpdateFields(d, extracted, i + 1)
             ELSE IF v.kind = "str"
                  THEN UpdateFields(DictSet(d, key, Strip(v.s)), extracted, i + 1)
                  ELSE [kyc |-> d, raised |-> TRUE]

Invalid(d, key) ==
    /\ key \in DOMAIN d
    /\ \/ key = "email" /\ ~is_valid_email(d[key])
       \/ key = "mobile" /\ ~is_valid_mobile(d[key])
       \/ key = "faculty" /\ ~is_valid_faculty(d[key])

\* validation_errors: the fields whose value fails its validator
ValidationErrors(d) == {key \in {"email", "mobile", "faculty"} : Invalid(d, key)}

\* if key in kyc and not is_valid_...(kyc[key]): validation_errors.append(...); kyc.pop(key)
Validate(d) ==
    LET errors == ValidationErrors(d)
    IN  [kyc |-> [key \in (DOMAIN d) \ errors |-> d[key]], errors |-> errors]

\* missing = [f for f in required_fields if f not in kyc]
Missing(d) == {RequiredFields[i] : i \in 1..Len(RequiredFields)} \ DOMAIN d

\* kyc = cl.user_session.get("kyc") or {}: the stored dict itself unless it is empty,
\* so writes into kyc are writes into the stored record when that was not empty
Aliased(stored) == stored # EmptyDict

\* The dict in the session when the update loop raises
StoredAfterRaise(stored, extracted) ==
    IF Aliased(stored) THEN UpdateFields(stored, extracted, 1).kyc ELSE stored

\* extract_kyc_variables_from_response(response_text)[0]
completion_status(text) ==
    IF Contains(text, STATUS_TRUE) THEN TRUE ELSE FALSE

\* for chunk in response_stream: response_text += token; if END_TOKEN in response_text: break
RECURSIVE Collect(_, _)
Collect(chunks, acc) ==
    IF chunks = <<>> THEN acc
    ELSE LET text == acc \o Head(chunks)
         IN  IF Contains(text, END_TOKEN) THEN text ELSE Collect(Tail(chunks), text)

\* clean_content / main_message: the text before END_TOKEN
CleanContent(text) ==
    IF Contains(text, END_TOKEN) THEN SplitFirst(text, END_TOKEN) ELSE text

\* Mutant: the final safety check is skipped, the content is left as streamed
SafetyCheck_Skipped(content) == content

\* FINAL SAFETY CHECK: if END_TOKEN in msg.content: msg.content = msg.content.split(END_TOKEN)[0]
SafetyCheck(content) ==
    IF Contains(content, END_TOKEN) THEN SplitFirst(content, END_TOKEN) ELSE content

\* The deterministic fallback: complete iff nothing is missing and nothing was invalid
FallbackComplete(d, errors) == Missing(d) = {} /\ errors = {}

----------------------------------------------------------------------------
(* The credential-keyed cache of chains (module globals of utils.py) *)

NoKey == "None"
Keys == {"k1", "k2"}
NoChain == "None"

\* The globals and the stored credential as one record; a chain is represented by the
\* credential it was built with
CacheState ==
    [key |-> api_key, cak |-> cached_api_key, llm |-> cached_llm_chain,
     media |-> cached_media_llm_chain, decision |-> cached_media_decision_chain]

\* get_media_decision_llm_chain / get_media_selector_llm_chain raise ValueError
\* without a credential; the getter has already stored current_api_key by then
get_cached_media_decision_chain(c) ==
    IF c.cak # c.key \/ c.decision = NoChain
    THEN IF c.key = NoKey
         THEN [raised |-> TRUE, chain |-> NoChain, cache |-> [c EXCEPT !.cak = c.key]]
         ELSE [raised |-> FALSE, chain |-> c.key,
               cache |-> [c EXCEPT !.cak = c.key, !.decision = c.key]]
    ELSE [raised |-> FALSE, chain |-> c.decision, cache |-> c]

get_cached_media_llm_chain(c) ==
    IF c.cak # c.key \/ c.media = NoChain
    THEN IF c.key = NoKey
         THEN [raised |-> TRUE, chain |-> NoChain, cache |-> [c EXCEPT !.cak = c.key]]
         ELSE [raised |-> FALSE, chain |-> c.key,
               cache |-> [c EXCEPT !.cak = c.key, !.media = c.key]]
    ELSE [raised |-> FALSE, chain |-> c.media, cache |-> c]

\* create_llm_chain raises without a credential or a vector store; the getter
\* catches it and caches None
get_cached_llm_chain(c, vs_ok) ==
    IF c.cak # c.key \/ c.llm = NoChain
    THEN LET built == IF vs_ok /\ c.key # NoKey THEN c.key ELSE NoChain
         IN  [raised |-> FALSE, chain |-> built,
              cache |-> [c EXCEPT !.cak = c.key, !.llm = built]]
    ELSE [raised |-> FALSE, chain |-> c.llm, cache |-> c]

SetCache(c) ==
    /\ cached_api_key' = c.cak
    /\ cached_llm_chain' = c.llm
    /\ cached_media_llm_chain' = c.media
    /\ cached_media_decision_chain' = c.decision

----------------------------------------------------------------------------
(* run_chain_with_retry *)

\* What the generation service does with one attempt
Quota == [kind |-> "quota", text |-> <<>>]
Failure == [kind |-> "error", text |-> <<>>]
Ok(text) == [kind |-> "ok", text |-> text]

\* The decorated function: try: return chain.invoke(params)
\* except Exception: return FallbackResult()
ChainBody(o) ==
    IF o.kind = "ok"
    THEN [raised |-> "no", content |-> o.text]
    ELSE [raised |-> "no", content |-> CHAIN_FALLBACK_CONTENT]

\* tenacity: retry_if_exception_type(ResourceExhausted), stop_after_attempt(5), reraise=True
RECURSIVE Retrying(_, _)
Retrying(outcomes, attempt) ==
    LET r == ChainBody(outcomes[attempt])
    IN  IF r.raised = "ResourceExhausted" /\ attempt < ATTEMPT_LIMIT
        THEN Retrying(outcomes, attempt + 1)
        ELSE [attempts |-> attempt, raised |-> r.raised, content |-> r.content]

run_chain_with_retry(outcomes) == Retrying(outcomes, 1)

\* A service that answers every attempt of one call the same way
Always(o) == [i \in 1..ATTEMPT_LIMIT |-> o]

----------------------------------------------------------------------------
(* extract_variables_from_response *)

INCLUDE_MEDIA ==
    <<"i","n","c","l","u","d","e","_","m","e","d","i","a","=">>

KEYWORDS_OPEN ==
    <<",","k","e","y","w","o","r","d","s","=","(">>

FlagTexts == [true |-> <<"t","r","u","e">>, false |-> <<"f","a","l","s","e">>]

\* include_media=(true|false),keywords=\( up to the opening parenthesis
EnvelopeHead(flag) == INCLUDE_MEDIA \o FlagTexts[flag] \o KEYWORDS_OPEN

\* s[i - 1:].startswith(t)
StartsAt(s, i, t) ==
    i + Len(t) - 1 <= Len(s) /\ SubSeq(s, i, i + Len(t) - 1) = t

MinOf(S) == CHOOSE x \in S : \A y \in S : x <= y

NoMatch == [matched |-> FALSE, flag |-> "false", group |-> <<>>]

\* The pattern include_media=(true|false),keywords=\((.*?)\) tried at position i:
\* (.*?) is lazy and re.DOTALL is set, so group 2 runs to the first ")" after "("
EnvelopeAt(s, i) ==
    LET flags == {flag \in DOMAIN FlagTexts : StartsAt(s, i, EnvelopeHead(flag))}
    IN  IF flags = {} THEN NoMatch
        ELSE LET flag == CHOOSE f \in flags : TRUE
                 open == i + Len(EnvelopeHead(flag))
                 closes == {j \in open..Len(s) : s[j] = ")"}
             IN  IF closes = {} THEN NoMatch
                 ELSE [matched |-> TRUE, flag |-> flag,
                       group |-> SubSeq(s, open, MinOf(closes) - 1)]

\* Mutant: the pattern asks for the flag only, include_media=(true|false)
new_format_match_FlagOnly(s) ==
    LET flagAt(i) == {flag \in DOMAIN FlagTexts : StartsAt(s, i, INCLUDE_MEDIA \o FlagTexts[flag])}
        starts == {i \in 1..Len(s) : flagAt(i) # {}}
    IN  IF starts = {} THEN NoMatch
        ELSE [matched |-> TRUE, flag |-> CHOOSE f \in flagAt(MinOf(starts)) : TRUE,
              group |-> <<>>]

\* re.search(r"include_media=(true|false),keywords=\((.*?)\)", response_text, re.DOTALL):
\* the leftmost position where the pattern matches
new_format_match(s) ==
    LET starts == {i \in 1..Len(s) : EnvelopeAt(s, i).matched}
    IN  IF starts = {} THEN NoMatch ELSE EnvelopeAt(s, MinOf(starts))

\* \s* after the sentinel: the first position from i on that holds no whitespace
RECURSIVE SkipWhitespace(_, _)
SkipWhitespace(s, i) ==
    IF i <= Len(s) /\ s[i] \in Whitespace THEN SkipWhitespace(s, i + 1) ELSE i

\* re.search(r"\[END_RESPONSE\]\s*include_media=(true|false),keywords=\((.*?)\)", ...)
old_format_match(s) ==
    LET after(i) == SkipWhitespace(s, i + Len(END_TOKEN))
        starts == {i \in 1..Len(s) :
                      StartsAt(s, i, END_TOKEN) /\ EnvelopeAt(s, after(i)).matched}
    IN  IF starts = {} THEN NoMatch ELSE EnvelopeAt(s, after(MinOf(starts)))

\* s.split(c)
RECURSIVE SplitOn(_, _)
SplitOn(s, c) ==
    LET at == {i \in 1..Len(s) : s[i] = c}
    IN  IF at = {} THEN <<s>>
        ELSE <<SubSeq(s, 1, MinOf(at) - 1)>> \o SplitOn(SubSeq(s, MinOf(at) + 1, Len(s)), c)

\* Mutant: the items are split but not stripped, and empty items are kept
KeywordsOf_Unstripped(group) == SplitOn(Strip(group), ",")

\* keywords_raw = group(2).strip()
\* keywords = [kw.strip() for kw in keywords_raw.split(",") if kw.strip()]
KeywordsOf(group) ==
    LET items == SplitOn(Strip(group), ",")
        stripped == [i \in 1..Len(items) |-> Strip(items[i])]
    IN  SelectSeq(stripped, LAMBDA kw : kw # <<>>)

extract_variables_from_response(text) ==
    LET new == new_format_match(text)
        old == old_format_match(text)
    IN  IF new.matched
        THEN [include_media |-> new.flag = "true", keywords |-> KeywordsOf(new.group)]
        ELSE IF old.matched
        THEN [include_media |-> old.flag = "true", keywords |-> KeywordsOf(old.group)]
        ELSE [include_media |-> FALSE, keywords |-> <<>>]

----------------------------------------------------------------------------
(* trim_chat_history *)

\* A turn of the raw history is [role, chars]: its role and the length of its content.
\* A LangChain message is [type, chars]: HumanMessage or AIMessage with that content.

\* RoleCls(m["content"]) for the user and assistant turns; other roles are skipped
RECURSIVE ToMessages(_)
ToMessages(raw_history) ==
    IF raw_history = <<>> THEN <<>>
    ELSE LET m == Head(raw_history)
         IN  (IF m.role = "user" THEN << [type |-> "human", chars |-> m.chars] >>
              ELSE IF m.role = "assistant" THEN << [type |-> "ai", chars |-> m.chars] >>
              ELSE <<>>) \o ToMessages(Tail(raw_history))

\* The role name count_tokens_approximately counts with the content
RoleChars(type) == IF type = "human" THEN 4 ELSE 9

\* math.ceil(a / b)
CeilDiv(a, b) == (a + b - 1) \div b

\* count_tokens_approximately: per message ceil((len(content) + len(role)) / 4) + 3
RECURSIVE count_tokens_approximately(_)
count_tokens_approximately(msgs) ==
    IF msgs = <<>> THEN 0
    ELSE CeilDiv(Head(msgs).chars + RoleChars(Head(msgs).type), 4) + 3
            + count_tokens_approximately(Tail(msgs))

\* end_on=("ai"): messages after the last AI message are dropped
RECURSIVE DropAfterLastAi(_)
DropAfterLastAi(msgs) ==
    IF msgs # <<>> /\ msgs[Len(msgs)].type # "ai"
    THEN DropAfterLastAi(SubSeq(msgs, 1, Len(msgs) - 1)) ELSE msgs

\* Mutant: the budget is compared with < instead of <=
RECURSIVE LastWithin_Strict(_)
LastWithin_Strict(msgs) ==
    IF count_tokens_approximately(msgs) < MAX_HISTORY_TOKENS THEN msgs
    ELSE LastWithin_Strict(Tail(msgs))

\* strategy="last", allow_partial=False: the longest suffix within max_tokens
RECURSIVE LastWithin(_)
LastWithin(msgs) ==
    IF count_tokens_approximately(msgs) <= MAX_HISTORY_TOKENS THEN msgs
    ELSE LastWithin(Tail(msgs))

\* Mutant: start_on is not passed, the suffix may start on an AI message
StartOnHuman_Skipped(msgs) == msgs

\* start_on="human": messages before the first human message of that suffix are dropped
RECURSIVE StartOnHuman(_)
StartOnHuman(msgs) ==
    IF msgs # <<>> /\ Head(msgs).type # "human" THEN StartOnHuman(Tail(msgs)) ELSE msgs

\* trim_messages(msgs, strategy="last", token_counter=count_tokens_approximately,
\*   max_tokens=MAX_HISTORY_TOKENS, start_on="human", end_on=("ai"),
\*   include_system=False, allow_partial=False)
trim_messages(msgs) == StartOnHuman(LastWithin(DropAfterLastAi(msgs)))

trim_chat_history(raw_history) == trim_messages(ToMessages(raw_history))

----------------------------------------------------------------------------
(* The chat context *)

\* A message of cl.chat_context. phase is "kyc" for a message exchanged in a turn that
\* the identity collection handled, "chat" otherwise
Entry(role, kind, phase) ==
    [role |-> role, kind |-> kind, phase |-> phase, turn |-> turn + 1]

\* cl.chat_context.remove(message)
Without(context, e) == SelectSeq(context, LAMBDA x : x # e)

\* error_msg of send_error_message: one of the fixed texts of the code, and for the
\* text built as an f-string the str(e) interpolated into it
NoDetail == "none"

ErrorText(text, detail) == [text |-> text, detail |-> detail]

NoError == ErrorText("none", NoDetail)

\* except Exception as e: send_error_message(f"Gemini quota or other error: {str(e)}")
CriticalError(e) == ErrorText("Gemini quota or other error", e)

\* Mutant: the user's message is left in the chat context
send_error_message_KeepsInput(context, user) ==
    LET error == [user EXCEPT !.role = "assistant", !.kind = "error"]
    IN  Without(Append(context, error), error)

\* send_error_message: the error message is sent, then the user's message and the
\* error message are removed from the chat context
send_error_message(context, user) ==
    LET error == [user EXCEPT !.role = "assistant", !.kind = "error"]
    IN  Without(Without(Append(context, error), user), error)

\* user_doc of save_user_data_to_collection
UserDoc(d) ==
    [key \in {"name", "email", "mobile", "faculty"} |->
        IF key \in DOMAIN d THEN Str(d[key]) ELSE Null]

----------------------------------------------------------------------------
(* Response texts handed to extract_variables_from_response *)


\* What can stand between two commas of a keyword clause
KeywordItems ==
    { <<"a">>, <<" ","l","a","b"," ">>, <<>>, <<" ">>, <<"x"," ","y">>, <<"a",")","b">> }

RECURSIVE SeqsUpTo(_, _)
SeqsUpTo(S, n) ==
    IF n = 0 THEN {<<>>}
    ELSE LET shorter == SeqsUpTo(S, n - 1)
         IN  shorter \cup {Append(q, x) : q \in {r \in shorter : Len(r) = n - 1}, x \in S}

KeywordItemLists == SeqsUpTo(KeywordItems, MaxKeywords)

\* ",".join(items)
RECURSIVE JoinComma(_)
JoinComma(items) ==
    IF items = <<>> THEN <<>>
    ELSE IF Len(items) = 1 THEN items[1]
    ELSE items[1] \o <<",">> \o JoinComma(Tail(items))

\* include_media=<flag>,keywords=(<items>)
Envelope(flag, items) == EnvelopeHead(flag) \o JoinComma(items) \o <<")">>

\* What precedes the envelope: nothing (new format), or an answer text, the sentinel
\* and optional whitespace (old format)
EnvelopePrefixes ==
    {<<>>} \cup {answer \o END_TOKEN \o space :
                    answer \in {<<>>, Body}, space \in {<<>>, <<" ">>, <<"\n">>}}

\* Response texts that hold no complete envelope
PlainTexts ==
    { <<>>, Body,
      INCLUDE_MEDIA \o FlagTexts["false"],
      INCLUDE_MEDIA \o FlagTexts["true"],
      Body \o END_TOKEN,
      Body \o END_TOKEN \o INCLUDE_MEDIA \o FlagTexts["true"],
      EnvelopeHead("true") \o <<"a">>,
      Body \o <<")">> }

\* A response text: an envelope written from a flag and items after a prefix, or
\* (kind "plain") the prefix alone
TextOf(c) ==
    IF c.kind = "envelope" THEN c.prefix \o Envelope(c.flag, c.items) ELSE c.prefix

EnvelopeCases ==
    [kind : {"envelope"}, flag : DOMAIN FlagTexts, items : KeywordItemLists,
     prefix : EnvelopePrefixes]

PlainCases == [kind : {"plain"}, flag : {"false"}, items : {<<>>}, prefix : PlainTexts]

NoCase == [kind |-> "plain", flag |-> "false", items |-> <<>>, prefix |-> <<>>]

----------------------------------------------------------------------------
(* Storage policy and interaction log (storage_util.py) *)

\* storage_mode None: nothing is logged
NoMode == "None"

\* app_settings.chat_storage; present is FALSE when the document or the key is missing
NoSettings ==
    [present |-> FALSE, enabled |-> FALSE, save_full_chat |-> FALSE, save_questions_only |-> FALSE]

Settings(enabled, save_full_chat, save_questions_only) ==
    [present |-> TRUE, enabled |-> enabled, save_full_chat |-> save_full_chat,
     save_questions_only |-> save_questions_only]

\* get_storage_config (read_ok: the configuration store answers)
get_storage_config(config, read_ok) ==
    IF ~read_ok THEN NoMode
    ELSE IF ~config.present THEN NoMode
    ELSE IF ~config.enabled THEN NoMode
    ELSE IF config.save_full_chat THEN "chat_history"
    ELSE IF config.save_questions_only THEN "questions"
    ELSE NoMode

\* Mutant: question-only logging keeps the answer with the question
QuestionDoc_WithAnswer(timestamp, user_input, ai_response) ==
    [session_id |-> SessionId, timestamp |-> timestamp, question |-> user_input,
     answer |-> ai_response]

\* question_doc of save_interaction_data
QuestionDoc(timestamp, user_input, ai_response) ==
    [session_id |-> SessionId, timestamp |-> timestamp, question |-> user_input]

\* user_message and ai_message of save_interaction_data
ChatDoc(timestamp, role, content) ==
    [session_id |-> SessionId, timestamp |-> timestamp, role |-> role, content |-> content]

\* save_interaction_data(user_input, ai_response, storage_mode), at time timestamp.
\* fail: "none", or the insert_one that raises ("first": also get_mongo_client;
\* "second": the insert of the AI message); the exception is caught inside.
\* Result: the two collections afterwards, and whether a write raised
save_interaction_data(user_input, ai_response, mode, timestamp, fail) ==
    LET unchanged(raised) == [chat |-> chat_history_collection,
                              questions |-> questions_collection, raised |-> raised]
        user_message == ChatDoc(timestamp, "user", user_input)
        ai_message == ChatDoc(timestamp, "assistant", ai_response)
    IN  IF mode = NoMode THEN unchanged(FALSE)
        ELSE IF fail = "first" THEN unchanged(TRUE)
        ELSE IF mode = "chat_history"
        THEN IF fail = "second"
             THEN [chat |-> Append(chat_history_collection, user_message),
                   questions |-> questions_collection, raised |-> TRUE]
             ELSE [chat |-> Append(Append(chat_history_collection, user_message), ai_message),
                   questions |-> questions_collection, raised |-> FALSE]
        ELSE IF mode = "questions"
        THEN [chat |-> chat_history_collection,
              questions |-> Append(questions_collection,
                                   QuestionDoc(timestamp, user_input, ai_response)),
              raised |-> FALSE]
        ELSE unchanged(FALSE)

----------------------------------------------------------------------------
(* Media of a chat turn (main.py, steps 1 to 2.5 and 5) *)

\* images[:3], videos[:3] of the fallback selection
FALLBACK_MEDIA == 3

\* A video url is "<platform>:<url>"; platform "other" stands for any other prefix
Video(platform, id) == [platform |-> platform, id |-> id]

\* What search_media_by_keywords finds
NoMedia == [images |-> <<>>, videos |-> <<>>]

Catalogs ==
    { NoMedia,
      [images |-> <<"i1", "i2">>, videos |-> << Video("facebook", "v1") >>],
      [images |-> <<"i1", "i2", "i3", "i4">>,
       videos |-> << Video("facebook", "v1"), Video("youtube", "v2"),
                     Video("other", "v3"), Video("facebook", "v4") >>] }

\* What the selector call gives: a JSON object with the list fields ("object"), a JSON
\* object without them ("no_fields"), JSON that is not an object ("not_object"), text
\* that is not JSON ("bad_json"), or the call raises ("raises")
SelectorOutput(kind, images, videos) == [kind |-> kind, images |-> images, videos |-> videos]

SelectorOutcomes ==
    { SelectorOutput("object", <<"i1">>, << Video("facebook", "v1") >>),
      SelectorOutput("object", <<"i1", "i2", "i3", "i4">>,
                     << Video("facebook", "v1"), Video("youtube", "v2"),
                        Video("other", "v3"), Video("facebook", "v4") >>),
      SelectorOutput("no_fields", <<>>, <<>>),
      SelectorOutput("not_object", <<>>, <<>>),
      SelectorOutput("bad_json", <<>>, <<>>),
      SelectorOutput("raises", <<>>, <<>>) }

\* seq[:n]
FirstN(seq, n) == SubSeq(seq, 1, IF Len(seq) < n THEN Len(seq) ELSE n)

\* Step 2.5 from the selector's output on: json.loads, selection_data.keys() and
\* .get("selected_images", []), or the json.JSONDecodeError fallback.
\* raised: an exception other than JSONDecodeError leaves the step
Selected(catalog, selector) ==
    IF selector.kind \in {"raises", "not_object"}
    THEN [raised |-> TRUE, images |-> <<>>, videos |-> <<>>]
    ELSE IF selector.kind = "bad_json"
    THEN [raised |-> FALSE, images |-> FirstN(catalog.images, FALLBACK_MEDIA),
          videos |-> FirstN(catalog.videos, FALLBACK_MEDIA)]
    ELSE [raised |-> FALSE, images |-> selector.images, videos |-> selector.videos]

\* Step 5: one cl.Image per selected image, one embed per selected video whose url
\* starts with facebook: or youtube:, other videos are skipped
Elements(images, videos) ==
    [images |-> images,
     videos |-> SelectSeq(videos, LAMBDA v : v.platform \in {"facebook", "youtube"})]

NoSelection == [made |-> FALSE, catalog |-> NoMedia, selector |-> "none"]

\* include_media, keywords = extract_variables_from_response(thinking_response):
\* what the parsing of the media decision call's answer can give
Decision(include_media, keywords) == [include_media |-> include_media, keywords |-> keywords]

Decisions ==
    { Decision(FALSE, <<>>),
      Decision(TRUE, << <<"l","a","b">> >>),
      Decision(TRUE, <<>>) }

\* The chain of create_llm_chain: the history-aware retriever reformulates the question
\* when there is chat history, retrieves, then the documents chain generates the answer
AnswerStages(trimmed) ==
    (IF trimmed # <<>> THEN <<"reformulate">> ELSE <<>>) \o <<"retrieve", "generate">>

\* Mutant: the answer is generated first, the media steps follow
StagesBeforeStream_AnswerFirst(media_stages, answer_stages) ==
    <<"trim">> \o answer_stages \o media_stages

\* The try block of handle_message up to step 4: history trimming, steps 1 to 2.5
\* (media), step 3 (answer)
StagesBeforeStream(media_stages, answer_stages) ==
    <<"trim">> \o media_stages \o answer_stages

\* user_input of the n-th message of the session
UserInput(n) == <<"q", <<"0","1","2","3","4","5","6","7","8","9">>[n + 1]>>

----------------------------------------------------------------------------
(* Dashboard: session authentication (middleware/auth.py, routes/auth.py) *)

Clients == {"c1", "c2"}

\* request.session without "user"
NoUser == [username |-> "none", present |-> FALSE]

\* request.session["user"] = {"username": username}
SessionUser(username) == [username |-> username, present |-> TRUE]

\* users_col: username -> password whose hash is stored
users_col == [username \in {"admin"} |-> "secret"]

\* verify_user: the user exists and bcrypt.verify(password, user["password"])
verify_user(username, password) ==
    username \in DOMAIN users_col /\ users_col[username] = password

\* Paths of requests
PATH_LOGIN == <<"/","l","o","g","i","n">>
PATH_LOGOUT == <<"/","l","o","g","o","u","t">>
PATH_HOME == <<"/">>
PATH_DASHBOARD == <<"/","d","a","s","h","b","o","a","r","d">>
PATH_STATIC_FILE == <<"/","s","t","a","t","i","c","/","a">>
PATH_SETTINGS == <<"/","a","p","i","/","c","o","n","f","i","g","/","c","h","a","t","-","s","t","o","r","a","g","e">>

Paths == {PATH_LOGIN, PATH_LOGOUT, PATH_HOME, PATH_DASHBOARD, PATH_STATIC_FILE, PATH_SETTINGS}

\* AuthMiddleware.public_routes
public_routes == {<<"/","l","o","g","i","n">>, <<"/","s","t","a","t","i","c">>, <<"/","d","o","c","s">>, <<"/","r","e","d","o","c">>}

\* any(path.startswith(route) for route in self.public_routes)
IsPublic(path) == \E route \in public_routes : StartsAt(path, 1, route)

\* Mutant: the middleware lets every request through
dispatch_NoCheck(session, path) == "call_next"

\* AuthMiddleware.dispatch: "call_next" or "redirect" to /login
dispatch(session, path) ==
    IF IsPublic(path) THEN "call_next"
    ELSE IF ~session.present THEN "redirect"
    ELSE "call_next"

Response(client, method, path, handler, status, location) ==
    [client |-> client, method |-> method, path |-> path, handler |-> handler,
     status |-> status, location |-> location]

NoResponse == Response("none", "none", <<>>, "none", 0, <<>>)

\* login_submit: the session after it and the response's status and location
login_submit(session, username, password) ==
    IF verify_user(username, password)
    THEN [session |-> SessionUser(username), status |-> 302, location |-> PATH_HOME]
    ELSE [session |-> session, status |-> 200, location |-> <<>>]

\* login_page
login_page(session) ==
    IF session.present
    THEN [session |-> session, status |-> 302, location |-> PATH_HOME]
    ELSE [session |-> session, status |-> 200, location |-> <<>>]

\* logout: request.session.clear()
logout(session) ==
    [session |-> NoUser, status |-> 302, location |-> PATH_LOGIN]

\* One request of a client through AuthMiddleware to the route of its path.
\* auth_log keeps, per client, every login attempt with verify_user's verdict and
\* every logout served
DashboardRequest(client, method, path, username, password) ==
    /\ auth_requests < MaxRequests
    /\ method = "POST" => path = PATH_LOGIN
    /\ auth_requests' = auth_requests + 1
    /\ LET session == auth_session[client]
           passed == dispatch(session, path) = "call_next"
           handler == IF ~passed THEN "none"
                      ELSE IF path = PATH_LOGIN
                           THEN IF method = "POST" THEN "login_submit" ELSE "login_page"
                      ELSE IF path = PATH_LOGOUT THEN "logout"
                      ELSE IF path = PATH_HOME THEN "home"
                      ELSE IF path = PATH_DASHBOARD THEN "dashboard"
                      ELSE IF path = PATH_SETTINGS THEN "get_chat_storage_setting"
                      ELSE "static"
           done == IF handler = "login_submit" THEN login_submit(session, username, password)
                   ELSE IF handler = "login_page" THEN login_page(session)
                   ELSE IF handler = "logout" THEN logout(session)
                   ELSE IF handler = "none"
                        THEN [session |-> session, status |-> 302, location |-> PATH_LOGIN]
                   ELSE [session |-> session, status |-> 200, location |-> <<>>]
           event == IF handler = "login_submit"
                    THEN <<IF verify_user(username, password) THEN "accepted" ELSE "refused">>
                    ELSE IF handler = "logout" THEN <<"logout">>
                    ELSE <<>>
       IN  /\ auth_session' = [auth_session EXCEPT ![client] = done.session]
           /\ auth_log' = [auth_log EXCEPT ![client] = @ \o event]
           /\ auth_response' = Response(client, method, path, handler, done.status,
                                        done.location)
    /\ UNCHANGED <<sessionVars, cacheVars, retryVars, envelopeVars, trimVars, chatVars,
                   validatorVars, streamVars, configVars, uploadVars>>

\* The dashboard before any request
InitAuth ==
    /\ auth_session = [client \in Clients |-> NoUser]
    /\ auth_log = [client \in Clients |-> <<>>]
    /\ auth_response = NoResponse
    /\ auth_requests = 0

(* Strings handed to the field validators *)

\* c * n
RECURSIVE Repeat(_, _)
Repeat(c, n) == IF n = 0 THEN <<>> ELSE <<c>> \o Repeat(c, n - 1)

\* Numbers of digits around the limits of \d{10,15}
DigitCounts == {9, 10, 15, 16}

MobileInputsOf(digit) ==
    { prefix \o Repeat(digit, n) \o suffix :
        prefix \in {<<>>, <<"+">>, <<"+","+">>}, n \in DigitCounts,
        suffix \in {<<>>, <<"\n">>, <<" ">>, <<"a">>} }

MobileStrings == MobileInputsOf("7") \cup MobileInputsOf("u0663")

EmailStrings ==
    { local \o at \o domain \o dot \o tld \o rest :
        local \in {<<>>, <<"a">>}, at \in {<<>>, <<"@">>}, domain \in {<<>>, <<"b">>},
        dot \in {<<>>, <<".">>}, tld \in {<<>>, <<"c","o">>},
        rest \in {<<>>, <<"@","d">>, <<" ","x">>} }

\* s.upper() for the letters of the model
Upper(s) ==
    [i \in 1..Len(s) |->
        IF \E c \in DOMAIN UpperToLower : UpperToLower[c] = s[i]
        THEN CHOOSE c \in DOMAIN UpperToLower : UpperToLower[c] = s[i]
        ELSE s[i]]

\* s.capitalize()
Capitalize(s) == IF s = <<>> THEN s ELSE Upper(<<Head(s)>>) \o Tail(s)

FacultyStrings ==
    LET names == {FACULTIES[n] : n \in 1..Len(FACULTIES)} \cup {<<"b","i","o","l","o","g","y">>, <<"e","n","g","i","n","e","e","r","i","n">>}
        spelled == names \cup {Upper(f) : f \in names} \cup {Capitalize(f) : f \in names}
    IN  spelled \cup {f \o <<" ">> : f \in spelled}

ValidatorInputs == MobileStrings \cup EmailStrings \cup FacultyStrings

NotValidated == [called |-> FALSE, email |-> FALSE, mobile |-> FALSE, faculty |-> FALSE]

\* The three validators applied to one string
ValidateString ==
    /\ ~val_result.called
    /\ val_result' = [called |-> TRUE, email |-> is_valid_email(val_input),
                      mobile |-> is_valid_mobile(val_input),
                      faculty |-> is_valid_faculty(val_input)]
    /\ UNCHANGED <<sessionVars, cacheVars, retryVars, envelopeVars, trimVars, chatVars,
                   authVars, val_input, streamVars, configVars, uploadVars>>

InitValidators(inputs) ==
    /\ val_input \in inputs
    /\ val_result = NotValidated

----------------------------------------------------------------------------
(* The storage setting: written by the dashboard, read by the chatbot *)

ConfigKeys == {"enabled", "save_full_chat", "save_questions_only"}

\* Values of the chat_storage sub-document: any of the three flags, present or not
ChatStorageDocs == UNION {[keys -> BOOLEAN] : keys \in SUBSET ConfigKeys}

\* find_one({"_id": "app_settings"}) finds nothing
NoDocument == [exists |-> FALSE, has_chat_storage |-> FALSE, chat_storage |-> EmptyDict]

\* default_config of _ensure_default_config: no chat_storage key
DefaultDocument == [exists |-> TRUE, has_chat_storage |-> FALSE, chat_storage |-> EmptyDict]

Document(flags) ==
    [exists |-> TRUE, has_chat_storage |-> TRUE, chat_storage |-> flags]

ConfigDocuments ==
    {NoDocument, DefaultDocument} \cup {Document(sub) : sub \in ChatStorageDocs}

\* d.get(key, default)
DictGetOr(d, key, default) == IF key \in DOMAIN d THEN d[key] ELSE default

\* _ensure_default_config
ensure_default_config(doc) == IF doc.exists THEN doc ELSE DefaultDocument

\* The document after update_one(..., {"$set": {"chat_storage.save_full_chat": ...,
\* "chat_storage.save_questions_only": ...}}, upsert=True)
update_chat_storage_setting(doc, save_full_chat) ==
    Document(DictSet(DictSet(doc.chat_storage, "save_full_chat", save_full_chat),
                     "save_questions_only", ~save_full_chat))

\* The dict get_chat_storage_setting falls back to
DefaultSetting ==
    [key \in ConfigKeys |-> key # "save_questions_only"]

\* get_chat_storage_setting
get_chat_storage_setting(doc) ==
    IF doc.exists /\ doc.has_chat_storage THEN doc.chat_storage ELSE DefaultSetting

\* ChatService.save_chat_interaction: where the dashboard stores an interaction under
\* a setting
save_chat_interaction(setting) ==
    IF ~DictGetOr(setting, "enabled", TRUE) THEN NoMode
    ELSE IF DictGetOr(setting, "save_full_chat", TRUE) THEN "chat_history"
    ELSE "questions"

\* get_storage_config: config["chat_storage"] as it reads it, each flag with
\* .get(flag, False)
StorageConfigOf(doc) ==
    IF doc.exists /\ doc.has_chat_storage
    THEN Settings(DictGetOr(doc.chat_storage, "enabled", FALSE),
                  DictGetOr(doc.chat_storage, "save_full_chat", FALSE),
                  DictGetOr(doc.chat_storage, "save_questions_only", FALSE))
    ELSE NoSettings

NoUpdate == [called |-> FALSE, save_full_chat |-> FALSE, success |-> FALSE]

NoReport == [called |-> FALSE, setting |-> EmptyDict]

\* ConfigurationService(): the constructor of the dashboard's service
ConfigServiceInit ==
    /\ ~cfg_doc.exists
    /\ cfg_doc' = ensure_default_config(cfg_doc)
    /\ UNCHANGED <<sessionVars, cacheVars, retryVars, envelopeVars, trimVars, chatVars,
                   authVars, validatorVars, streamVars, uploadVars, cfg_update, cfg_mode, cfg_report>>

\* POST /api/config/chat-storage (db_ok: update_one does not raise); the $set writes
\* updated_at as well, so a write that does not raise modifies the document
UpdateSetting(save_full_chat, db_ok) ==
    /\ cfg_doc' = IF db_ok THEN update_chat_storage_setting(cfg_doc, save_full_chat)
                  ELSE cfg_doc
    /\ cfg_update' = [called |-> TRUE, save_full_chat |-> save_full_chat,
                      success |-> db_ok]
    /\ cfg_mode' = "not_read"
    /\ cfg_report' = NoReport
    /\ UNCHANGED <<sessionVars, cacheVars, retryVars, envelopeVars, trimVars, chatVars,
                   authVars, validatorVars, streamVars, uploadVars>>

\* on_chat_start of a new chat session: storage_mode = get_storage_config()
ChatSessionStart ==
    /\ cfg_mode = "not_read"
    /\ cfg_mode' = get_storage_config(StorageConfigOf(cfg_doc), TRUE)
    /\ UNCHANGED <<sessionVars, cacheVars, retryVars, envelopeVars, trimVars, chatVars,
                   authVars, validatorVars, streamVars, uploadVars, cfg_doc, cfg_update, cfg_report>>

\* GET /api/config/chat-storage
ReadSetting ==
    /\ ~cfg_report.called
    /\ cfg_report' = [called |-> TRUE, setting |-> get_chat_storage_setting(cfg_doc)]
    /\ UNCHANGED <<sessionVars, cacheVars, retryVars, envelopeVars, trimVars, chatVars,
                   authVars, validatorVars, streamVars, uploadVars, cfg_doc, cfg_update, cfg_mode>>

InitConfig(documents) ==
    /\ cfg_doc \in documents
    /\ cfg_update = NoUpdate
    /\ cfg_mode = "not_read"
    /\ cfg_report = NoReport

----------------------------------------------------------------------------
(* Dashboard: add_documents_to_vector_store_with_batching *)

MaxChunks == 3
MaxBatchSize == 2
MaxUploadRetries == 3

\* What one vector_store.add_documents call does: it returns, or raises an error whose
\* message holds one of the quota keywords, or raises another error
UploadOutcomes == {"ok", "quota", "other"}

\* is_quota_error
is_quota_error(outcome) == outcome = "quota"

\* Mutant: every failed call is retried while attempts are left
ShouldRetry_AnyError(outcome, retries, limit) == retries < limit

\* if is_quota_error and retry_count < max_retries
ShouldRetry(outcome, retries, limit) == is_quota_error(outcome) /\ retries < limit

\* batch_end = min(current_batch_start + batch_size, total_chunks)
BatchEnd(start) ==
    IF start + batch_size < total_chunks THEN start + batch_size ELSE total_chunks

\* batch_number = (current_batch_start // batch_size) + 1
BatchNumber(start) == (start \div batch_size) + 1

FailedBatch(start, outcome, retries) ==
    [batch_number |-> BatchNumber(start), start_chunk |-> start,
     end_chunk |-> BatchEnd(start), error |-> outcome, retries |-> retries]

\* The call's outcome added to the batch's record
Logged(start, outcome) ==
    IF BatchNumber(start) > Len(upload_log)
    THEN Append(upload_log, <<outcome>>)
    ELSE [upload_log EXCEPT ![BatchNumber(start)] = Append(@, outcome)]

\* One pass of the inner while loop: a vector_store.add_documents call and what
\* follows it, up to the next call
AttemptBatch(outcome) ==
    /\ upload_pc = "loop"
    /\ current_batch_start < total_chunks
    /\ retry_count < max_retries
    /\ upload_log' = Logged(current_batch_start, outcome)
    /\ IF outcome = "ok"
       THEN /\ successful_chunks' =
                  successful_chunks + (BatchEnd(current_batch_start) - current_batch_start)
            /\ current_batch_start' = BatchEnd(current_batch_start)
            /\ retry_count' = 0
            /\ UNCHANGED failed_batches
       ELSE IF ShouldRetry(outcome, retry_count + 1, max_retries)
       THEN /\ retry_count' = retry_count + 1
            /\ UNCHANGED <<successful_chunks, current_batch_start, failed_batches>>
       ELSE /\ failed_batches' =
                  Append(failed_batches,
                         FailedBatch(current_batch_start, outcome, retry_count + 1))
            /\ current_batch_start' = BatchEnd(current_batch_start)
            /\ retry_count' = 0
            /\ UNCHANGED successful_chunks
    /\ UNCHANGED <<sessionVars, cacheVars, retryVars, envelopeVars, trimVars, chatVars,
                   authVars, validatorVars, streamVars, configVars,
                   total_chunks, batch_size, max_retries, upload_pc>>

\* The inner while loop is not entered (max_retries is 0): the batch is passed over
PassBatch ==
    /\ upload_pc = "loop"
    /\ current_batch_start < total_chunks
    /\ ~(retry_count < max_retries)
    /\ current_batch_start' = BatchEnd(current_batch_start)
    /\ upload_log' = Append(upload_log, <<>>)
    /\ UNCHANGED <<sessionVars, cacheVars, retryVars, envelopeVars, trimVars, chatVars,
                   authVars, validatorVars, streamVars, configVars,
                   total_chunks, batch_size, max_retries, retry_count,
                   successful_chunks, failed_batches, upload_pc>>

\* The outer while loop ends: result is built and returned
ReturnResult ==
    /\ upload_pc = "loop"
    /\ ~(current_batch_start < total_chunks)
    /\ upload_pc' = "done"
    /\ UNCHANGED <<sessionVars, cacheVars, retryVars, envelopeVars, trimVars, chatVars,
                   authVars, validatorVars, streamVars, configVars,
                   total_chunks, batch_size, max_retries, current_batch_start, retry_count,
                   successful_chunks, failed_batches, upload_log>>

\* The call: total chunks after splitting, batch_size and max_retries as passed
InitUpload(totals, sizes, limits) ==
    /\ total_chunks \in totals
    /\ batch_size \in sizes
    /\ max_retries \in limits
    /\ current_batch_start = 0
    /\ retry_count = 0
    /\ successful_chunks = 0
    /\ failed_batches = <<>>
    /\ upload_log = <<>>
    /\ upload_pc = "loop"

InitRest ==
    /\ InitAuth /\ InitValidators({<<>>}) /\ generated = <<>> /\ InitConfig({NoDocument})
    /\ InitUpload({0}, {1}, {1})

----------------------------------------------------------------------------
(* State after on_chat_start *)

InitOf(credentials, cases, histories, settings) ==
    /\ kyc = EmptyDict
    /\ kyc_started = FALSE
    /\ is_kyc_complete = FALSE
    /\ chat_context = << [role |-> "assistant", kind |-> "welcome", phase |-> "chat", turn |-> 0] >>
    /\ users_collection = EmptyDict
    /\ save_calls = 0
    /\ pc = "idle"
    /\ msg = <<>>
    /\ pending = <<>>
    /\ response_text = <<>>
    /\ kyc_result = "not_called"
    /\ history = <<>>
    /\ turn = 0
    /\ api_key \in credentials
    /\ cached_api_key = NoKey
    /\ cached_llm_chain = NoChain
    /\ cached_media_llm_chain = NoChain
    /\ cached_media_decision_chain = NoChain
    /\ returned_chain = [getter |-> "none", chain |-> NoChain, key |-> NoKey, raised |-> FALSE]
    /\ retry_outcomes = Always(Ok(Body))
    /\ retry_attempts = 0
    /\ retry_result = [raised |-> "not_called", content |-> <<>>]
    /\ ev_case \in cases
    /\ ev_text = TextOf(ev_case)
    /\ ev_result = [called |-> FALSE, include_media |-> FALSE, keywords |-> <<>>]
    /\ trim_input \in histories
    /\ trim_output = <<>>
    /\ trim_prev = [calls |-> 0, messages |-> <<>>]
    /\ stages = <<>>
    /\ selection = NoSelection
    /\ selected_images = <<>>
    /\ selected_videos = <<>>
    /\ elements = NoMedia
    /\ error_shown = FALSE
    /\ intent = "not_called"
    /\ over_limit = FALSE
    /\ error_msg = NoError
    /\ write_failed = "none"
    /\ chat_storage \in settings
    /\ storage_mode \in {get_storage_config(chat_storage, read_ok) : read_ok \in BOOLEAN}
    /\ chat_history_collection = <<>>
    /\ questions_collection = <<>>

\* A session runs with the credential found when the process started
Init == InitOf({NoKey, "k1"}, {NoCase}, {<<>>}, {NoSettings}) /\ InitRest

----------------------------------------------------------------------------
(* handle_message, identity collection (kyc_result is False or True, or handle_kyc raises) *)

\* Mutant: the completion flag is never read back, every message goes to handle_kyc
kyc_completed_NeverRead == FALSE

\* kyc_completed = cl.user_session.get("is_kyc_complete", False); handle_kyc is called
\* only when it is False
kyc_completed == is_kyc_complete

\* Mutant: the record is saved after every handle_kyc turn, complete or not
KycReturn_SaveEveryTurn(ret, db_ok) ==
    /\ kyc_result' = IF ret THEN "True" ELSE "False"
    /\ write_failed' = IF db_ok THEN "none" ELSE "upsert"
    /\ is_kyc_complete' = (is_kyc_complete \/ ret)
    /\ save_calls' = save_calls + 1
    /\ users_collection' = IF db_ok
                           THEN DictSet(users_collection, SessionId, UserDoc(kyc'))
                           ELSE users_collection

\* handle_message after handle_kyc returned ret: on True the session is marked complete
\* and save_user_data_to_collection upserts the record (db_ok: the write succeeds;
\* when it fails the exception is caught there, False is returned and only printed)
KycReturn(ret, db_ok) ==
    /\ kyc_result' = IF ret THEN "True" ELSE "False"
    /\ write_failed' = IF ret /\ ~db_ok THEN "upsert" ELSE "none"
    /\ IF ret
       THEN /\ is_kyc_complete' = TRUE
            /\ save_calls' = save_calls + 1
            /\ users_collection' = IF db_ok
                                   THEN DictSet(users_collection, SessionId, UserDoc(kyc'))
                                   ELSE users_collection
       ELSE UNCHANGED <<is_kyc_complete, save_calls, users_collection>>

\* The record after the update loop and the validation, and the validation errors
Collected(extracted) ==
    Validate(UpdateFields(kyc, extracted, 1).kyc)

\* NOT_STARTED, intent detected: kyc_started is set and a welcome is sent.
\* welcome: "stream" (welcome chain), "nochain" (fallback text), "error" (the chain
\* raises after welcome_msg.send(), the fallback text is sent as well)
KycStart(welcome) ==
    /\ pc = "idle" /\ turn < MaxTurns
    /\ ~kyc_completed /\ ~kyc_started
    /\ kyc_started' = TRUE
    /\ chat_context' =
          LET received == Append(chat_context, Entry("user", "input", "kyc"))
              sent == Append(received, Entry("assistant", "welcome", "kyc"))
          IN  IF welcome = "error"
              THEN Append(sent, Entry("assistant", "fallback", "kyc"))
              ELSE sent
    /\ kyc_result' = "False"
    /\ msg' = <<>>
    /\ pc' = "idle"
    /\ response_text' = <<>>
    /\ turn' = turn + 1
    /\ error_shown' = FALSE
    /\ intent' = "True"
    /\ over_limit' = FALSE
    /\ error_msg' = NoError
    /\ write_failed' = "none"
    /\ UNCHANGED <<kyc, is_kyc_complete, users_collection, save_calls, pending,
                   history, cacheVars, retryVars, envelopeVars, restVars, trimVars,
                   mediaVars, storageVars>>

\* COLLECTING, no extraction: get_kyc_chain gives None, kyc_chain.invoke raises or
\* json.loads raises; send_error_message and return False
KycExtractFail ==
    /\ pc = "idle" /\ turn < MaxTurns
    /\ ~kyc_completed /\ kyc_started
    /\ chat_context' =
          LET user == Entry("user", "input", "kyc")
          IN  send_error_message(Append(chat_context, user), user)
    /\ kyc_result' = "False"
    /\ msg' = <<>>
    /\ pc' = "idle"
    /\ response_text' = <<>>
    /\ turn' = turn + 1
    /\ error_shown' = TRUE
    /\ intent' = "not_called"
    /\ over_limit' = FALSE
    /\ error_msg' = ErrorText("Sorry, I couldn't process your message", NoDetail)
    /\ write_failed' = "none"
    /\ UNCHANGED <<kyc, kyc_started, is_kyc_complete, users_collection, save_calls, pending,
                   history, cacheVars, retryVars, envelopeVars, restVars, trimVars,
                   mediaVars, storageVars>>

\* COLLECTING, the extraction is JSON of an unexpected shape: not an object
\* (extracted.get raises AttributeError) or an object with a truthy value that is
\* not a string (.strip() raises); nothing catches it in handle_kyc or handle_message
KycExtractRaise(is_object, extracted) ==
    /\ pc = "idle" /\ turn < MaxTurns
    /\ ~kyc_completed /\ kyc_started
    /\ kyc' = IF is_object THEN StoredAfterRaise(kyc, extracted) ELSE kyc
    /\ chat_context' = Append(chat_context, Entry("user", "input", "kyc"))
    /\ kyc_result' = "raised"
    /\ msg' = <<>>
    /\ pc' = "idle"
    /\ response_text' = <<>>
    /\ turn' = turn + 1
    /\ error_shown' = FALSE
    /\ intent' = "not_called"
    /\ over_limit' = FALSE
    /\ error_msg' = NoError
    /\ write_failed' = "none"
    /\ UNCHANGED <<kyc_started, is_kyc_complete, users_collection, save_calls, pending,
                   history, cacheVars, retryVars, envelopeVars, restVars, trimVars,
                   mediaVars, storageVars>>

\* COLLECTING, no guidance generator: get_message_chain gives None, or the stream and
\* the fallback invoke both raise; the templated message is sent
KycDeterministic(extracted, db_ok) ==
    /\ pc = "idle" /\ turn < MaxTurns
    /\ ~kyc_completed /\ kyc_started
    /\ LET c == Collected(extracted)
           complete == FallbackComplete(c.kyc, c.errors)
           received == Append(chat_context, Entry("user", "input", "kyc"))
       IN  /\ kyc' = c.kyc
           /\ chat_context' =
                 Append(received, Entry("assistant",
                                        IF complete THEN "completion" ELSE "fallback", "kyc"))
           /\ KycReturn(complete, db_ok)
    /\ msg' = <<>>
    /\ pc' = "idle"
    /\ response_text' = <<>>
    /\ turn' = turn + 1
    /\ error_shown' = FALSE
    /\ intent' = "not_called"
    /\ over_limit' = FALSE
    /\ error_msg' = NoError
    /\ UNCHANGED <<kyc_started, pending, history, cacheVars, retryVars, envelopeVars, restVars, trimVars,
                   mediaVars, storageVars>>

\* COLLECTING, message_chain.stream raises and message_chain.invoke returns text
KycInvoke(extracted, text, db_ok) ==
    /\ pc = "idle" /\ turn < MaxTurns
    /\ ~kyc_completed /\ kyc_started
    /\ kyc' = Collected(extracted).kyc
    /\ chat_context' = Append(chat_context, Entry("user", "input", "kyc"))
    /\ response_text' = text
    /\ msg' = CleanContent(text)
    /\ KycReturn(completion_status(text), db_ok)
    /\ pc' = "idle"
    /\ turn' = turn + 1
    /\ error_shown' = FALSE
    /\ intent' = "not_called"
    /\ over_limit' = FALSE
    /\ error_msg' = NoError
    /\ UNCHANGED <<kyc_started, pending, history, cacheVars, retryVars, envelopeVars, restVars, trimVars,
                   mediaVars, storageVars>>

\* The streaming branch up to the first stream_token: what was collected from the
\* stream and the chunks to pass to msg.stream_token
KycStreamPlan(text, n) ==
    LET collected == Collect(Delivered(text, n), <<>>)
        clean_content == CleanContent(collected)
    IN  [response_text |-> collected,
         pending |-> IF Strip(clean_content) # <<>>
                     THEN ChunksOf(clean_content)
                     ELSE <<KYC_WAIT_MSG>>]

\* KycStreamPlan, tabulated over the inputs of the model
KycStreamPlans ==
    [text \in GuidanceTexts, n \in StreamChunkLens |-> KycStreamPlan(text, n)]

\* COLLECTING, the guidance is streamed: all tokens are collected up to the chunk that
\* completes END_TOKEN, then the clean part is streamed 3 characters at a time
KycStreamStart(extracted, text, n) ==
    /\ pc = "idle" /\ turn < MaxTurns
    /\ ~kyc_completed /\ kyc_started
    /\ kyc' = Collected(extracted).kyc
    /\ chat_context' = Append(chat_context, Entry("user", "input", "kyc"))
    /\ response_text' = KycStreamPlans[text, n].response_text
    /\ pending' = KycStreamPlans[text, n].pending
    /\ generated' = text
    /\ msg' = <<>>
    /\ pc' = "kyc_stream"
    /\ kyc_result' = "running"
    /\ turn' = turn + 1
    /\ error_shown' = FALSE
    /\ intent' = "not_called"
    /\ over_limit' = FALSE
    /\ error_msg' = NoError
    /\ write_failed' = "none"
    /\ UNCHANGED <<kyc_started, is_kyc_complete, users_collection, save_calls, history,
                   cacheVars, retryVars, envelopeVars, authVars, validatorVars, configVars,
                   uploadVars,
                   trimVars,
                   mediaVars, storageVars>>

\* await msg.stream_token(content_chunk)
KycStreamToken ==
    /\ pc = "kyc_stream"
    /\ pending # <<>>
    /\ msg' = msg \o Head(pending)
    /\ pending' = Tail(pending)
    /\ UNCHANGED <<intent, over_limit, kyc, kyc_started, is_kyc_complete, chat_context, users_collection,
                   save_calls, pc, response_text, kyc_result, history, turn,
                   cacheVars, retryVars, envelopeVars, restVars, trimVars, chatVars>>

\* After the last chunk: safety check, status extraction, return completion_status
KycStreamEnd(db_ok) ==
    /\ pc = "kyc_stream"
    /\ pending = <<>>
    /\ msg' = SafetyCheck(msg)
    /\ UNCHANGED kyc
    /\ KycReturn(completion_status(response_text), db_ok)
    /\ pc' = "idle"
    /\ generated' = <<>>
    /\ UNCHANGED <<intent, over_limit, kyc_started, chat_context, pending, response_text, history, turn,
                   cacheVars, retryVars, envelopeVars, authVars, validatorVars, configVars,
                   uploadVars,
                   trimVars,
                   mediaVars, storageVars, error_shown, error_msg>>

----------------------------------------------------------------------------
(* handle_message, answer pipeline (kyc_result is None: the session is complete, or it
   has not started and the message shows no application intent) *)

\* Outputs of the answer generator
AnswerTexts ==
    { <<"H","i","!">>,
      <<" ">>,
      <<"a","b">> \o END_TOKEN \o <<"x","y">>,
      <<"a">> \o END_TOKEN }

AnswerOutcomes == {Ok(t) : t \in AnswerTexts} \cup {Quota, Failure}

\* The try block up to the start of streaming.
\*   too_long  token_count > MAX_INPUT_TOKENS
\*   decided   include_media and keywords parsed from the media decision call's answer
\*   catalog   what search_media_by_keywords finds for the keywords
\*   selector  what media_selector_chain.invoke gives
\*   vs_ok     get_pinecone_vector_store succeeds when the RAG chain is rebuilt
\*   answer    what the generation service does with the answer call
\* Result: how the turn goes on, the cache afterwards, the chat context, the history
\* handed to trim_chat_history, the answer text, the stages run and the media selected
Pipeline(too_long, decided, catalog, selector, vs_ok, answer) ==
    LET user == Entry("user", "input", "chat")
        received == Append(chat_context, user)
        spinner == Append(received, Entry("assistant", "answer", "chat"))
        hist == SubSeq(spinner, 1, Len(spinner) - 2)
        trimmed == trim_chat_history([i \in 1..Len(hist) |->
                                         [role |-> hist[i].role, chars |-> 0]])
        r1 == get_cached_media_decision_chain(CacheState)
        searching == decided.include_media /\ decided.keywords # <<>>
        selecting == searching /\ (catalog.images # <<>> \/ catalog.videos # <<>>)
        r2 == IF selecting
              THEN get_cached_media_llm_chain(r1.cache)
              ELSE [raised |-> FALSE, chain |-> NoChain, cache |-> r1.cache]
        chosen == IF selecting
                  THEN Selected(catalog, selector)
                  ELSE [raised |-> FALSE, images |-> <<>>, videos |-> <<>>]
        r3 == get_cached_llm_chain(r2.cache, vs_ok)
        searched == <<"decide">> \o (IF searching THEN <<"search">> ELSE <<>>)
        media_stages == searched \o (IF selecting THEN <<"select">> ELSE <<>>)
        made == [made |-> selecting, catalog |-> IF selecting THEN catalog ELSE NoMedia,
                 selector |-> IF selecting THEN selector.kind ELSE "none"]
        failed(cache, run, sel, e) ==
            [end |-> "error", cache |-> cache,
             context |-> send_error_message(spinner, user),
             history |-> hist, text |-> <<>>, stages |-> run, selection |-> sel,
             images |-> <<>>, videos |-> <<>>, error |-> CriticalError(e)]
        no_key == "Gemini API key not found"
        selector_error == IF selector.kind = "not_object"
                          THEN "object has no attribute 'keys'"
                          ELSE "selector call failed"
    IN  IF too_long
        THEN [end |-> "reject", cache |-> CacheState,
              context |-> send_error_message(received, user),
              history |-> history, text |-> <<>>, stages |-> <<>>,
              selection |-> NoSelection, images |-> <<>>, videos |-> <<>>,
              error |-> ErrorText("Input too long", NoDetail)]
        ELSE IF r1.raised THEN failed(r1.cache, <<"trim">>, NoSelection, no_key)
        ELSE IF r2.raised THEN failed(r2.cache, <<"trim">> \o searched, NoSelection, no_key)
        ELSE IF chosen.raised
             THEN failed(r2.cache, <<"trim">> \o media_stages, made, selector_error)
        ELSE IF r3.chain = NoChain
             THEN [end |-> "norag", cache |-> r3.cache,
                   context |-> send_error_message(spinner, user),
                   history |-> hist, text |-> <<>>,
                   stages |-> <<"trim">> \o media_stages, selection |-> made,
                   images |-> chosen.images, videos |-> chosen.videos,
                   error |-> ErrorText("Unable to initialize RAG chain", NoDetail)]
             ELSE [end |-> "stream", cache |-> r3.cache, context |-> spinner,
                   history |-> hist, text |-> run_chain_with_retry(Always(answer)).content,
                   stages |-> StagesBeforeStream(media_stages, AnswerStages(trimmed)),
                   selection |-> made,
                   images |-> chosen.images, videos |-> chosen.videos, error |-> NoError]

\* Mutant: handle_kyc returns None whenever no intent is detected
NotKycInteraction_AnyState(started, detected) == ~detected

\* handle_kyc returns None: KYC has not started and detect_application_intent is False
NotKycInteraction(started, detected) == ~started /\ ~detected

\* A message for the answer pipeline, up to the first msg.stream_token
ChatTurn(too_long, decided, catalog, selector, vs_ok, answer) ==
    /\ pc = "idle" /\ turn < MaxTurns
    /\ kyc_completed \/ NotKycInteraction(kyc_started, FALSE)
    /\ kyc_result' = IF kyc_completed THEN "not_called" ELSE "None"
    /\ intent' = IF kyc_completed THEN "not_called" ELSE "False"
    /\ over_limit' = too_long
    /\ LET p == Pipeline(too_long, decided, catalog, selector, vs_ok, answer)
       IN  /\ SetCache(p.cache)
           /\ chat_context' = p.context
           /\ history' = p.history
           /\ response_text' = p.text
           /\ selection' = p.selection
           /\ selected_images' = p.images
           /\ selected_videos' = p.videos
           /\ error_shown' = (p.end # "stream")
           /\ error_msg' = p.error
           /\ IF p.end = "stream"
              THEN /\ pc' = "main_stream"
                   /\ stages' = Append(p.stages, "stream")
                   /\ pending' = IF Strip(p.text) # <<>>
                                 THEN ChunksOf(p.text)
                                 ELSE <<MAIN_FALLBACK_MSG>>
              ELSE /\ pc' = "idle"
                   /\ stages' = p.stages
                   /\ pending' = <<>>
    /\ msg' = <<>>
    /\ elements' = NoMedia
    /\ write_failed' = "none"
    /\ turn' = turn + 1
    /\ UNCHANGED <<kyc, kyc_started, is_kyc_complete, users_collection, save_calls,
                   api_key, returned_chain, retryVars, envelopeVars, restVars, trimVars, storageVars>>

\* await msg.stream_token(chunk)
MainStreamToken ==
    /\ pc = "main_stream"
    /\ pending # <<>>
    /\ msg' = msg \o Head(pending)
    /\ pending' = Tail(pending)
    /\ UNCHANGED <<intent, over_limit, kyc, kyc_started, is_kyc_complete, chat_context, users_collection,
                   save_calls, pc, response_text, kyc_result, history, turn,
                   cacheVars, retryVars, envelopeVars, restVars, trimVars, chatVars>>

\* Mutant: the policy is read again when the turn is logged
LoggingMode_ReadAgain == get_storage_config(chat_storage, TRUE)

\* storage_mode = cl.user_session.get("storage_mode")
LoggingMode == storage_mode

\* Mutant: an exception of the interaction log reaches the outer handler, which sends
\* the error message
LogFailureShown_Propagated(raised) == raised

\* try: save_interaction_data(...) except Exception: print(...); whether the user is
\* sent an error message when a write of the interaction log raised
LogFailureShown(raised) == FALSE

\* After the last chunk: the final safety check, step 5 (media display), the
\* interaction log, then the message is finalized.
\* fail: which write of save_interaction_data raises, if it gets that far
MainStreamEnd(fail) ==
    /\ pc = "main_stream"
    /\ pending = <<>>
    /\ msg' = SafetyCheck(msg)
    /\ LET shown == Elements(selected_images, selected_videos)
           media == [role |-> "assistant", kind |-> "media", phase |-> "chat", turn |-> turn]
           saved == save_interaction_data(UserInput(turn), response_text, LoggingMode,
                                          turn, fail)
       IN  /\ elements' = shown
           /\ IF shown # NoMedia
              THEN /\ chat_context' = Append(chat_context, media)
                   /\ stages' = stages \o <<"media", "log">>
              ELSE /\ chat_context' = chat_context
                   /\ stages' = Append(stages, "log")
           /\ chat_history_collection' = saved.chat
           /\ questions_collection' = saved.questions
           /\ write_failed' = IF saved.raised THEN "log" ELSE "none"
           /\ error_shown' = (error_shown \/ LogFailureShown(saved.raised))
           /\ error_msg' = error_msg
    /\ pc' = "idle"
    /\ UNCHANGED <<intent, over_limit, kyc, kyc_started, is_kyc_complete, users_collection,
                   save_calls, pending, response_text, kyc_result, history, turn,
                   cacheVars, retryVars, envelopeVars, restVars, trimVars,
                   selection, selected_images, selected_videos,
                   chat_storage, storage_mode>>

\* The dashboard changes app_settings.chat_storage while the session is open
ChangePolicy(config) ==
    /\ config # chat_storage
    /\ chat_storage' = config
    /\ UNCHANGED <<sessionVars, cacheVars, retryVars, envelopeVars, restVars, trimVars,
                   mediaVars, outcomeVars, storage_mode, chat_history_collection,
                   questions_collection>>

\* The dashboard stores another credential (or removes it)
RotateKey(k) ==
    /\ k # api_key
    /\ api_key' = k
    /\ UNCHANGED <<sessionVars, cached_api_key, cached_llm_chain, cached_media_llm_chain,
                   cached_media_decision_chain, returned_chain, retryVars, envelopeVars, restVars, trimVars, chatVars>>

Next ==
    \/ \E welcome \in {"stream", "nochain", "error"} : KycStart(welcome)
    \/ KycExtractFail
    \/ \E extracted \in IllTypedObjects : KycExtractRaise(TRUE, extracted)
    \/ \E extracted \in {EmptyDict} : KycExtractRaise(FALSE, extracted)
    \/ \E extracted \in WellTypedObjects, db_ok \in BOOLEAN :
          KycDeterministic(extracted, db_ok)
    \/ \E extracted \in WellTypedObjects, text \in GuidanceTexts, db_ok \in BOOLEAN :
          KycInvoke(extracted, text, db_ok)
    \/ \E extracted \in WellTypedObjects, text \in GuidanceTexts, n \in StreamChunkLens :
          KycStreamStart(extracted, text, n)
    \/ KycStreamToken
    \/ \E db_ok \in BOOLEAN : KycStreamEnd(db_ok)
    \/ \E too_long \in BOOLEAN, decided \in {d \in Decisions : d.include_media = (d.keywords # <<>>)},
          catalog \in {c \in Catalogs : Len(c.images) = 2},
          selector \in {o \in SelectorOutcomes : o.kind \in {"bad_json", "raises"}}
                       \cup {SelectorOutput("object", <<"i1">>, << Video("facebook", "v1") >>)},
          vs_ok \in BOOLEAN, answer \in AnswerOutcomes :
          ChatTurn(too_long, decided, catalog, selector, vs_ok, answer)
    \/ MainStreamToken
    \/ MainStreamEnd("none")

Spec == Init /\ [][Next]_vars

----------------------------------------------------------------------------
(* Chat turns with media and the interaction log, while the storage policy changes *)

\* Values of app_settings.chat_storage
StoragePolicies ==
    { NoSettings,
      Settings(TRUE, TRUE, TRUE),
      Settings(TRUE, FALSE, TRUE),
      Settings(FALSE, TRUE, TRUE) }

\* An extraction that found nothing
NothingExtracted == {extracted \in WellTypedObjects : \A key \in DOMAIN extracted : extracted[key] = Null}

NextChat ==
    \/ KycStart("nochain")
    \/ \E extracted \in NothingExtracted, db_ok \in BOOLEAN :
          KycInvoke(extracted, Body \o END_TOKEN \o STATUS_TRUE, db_ok)
    \/ \E decided \in Decisions,
          catalog \in {c \in Catalogs : Len(c.images) # 2},
          selector \in {o \in SelectorOutcomes : o.kind # "raises"},
          answer \in {Ok(<<"H","i","!">>), Ok(<<" ">>)} :
          ChatTurn(FALSE, decided, catalog, selector, TRUE, answer)
    \/ MainStreamToken
    \/ \E fail \in {"none", "first", "second"} : MainStreamEnd(fail)
    \/ \E config \in StoragePolicies : ChangePolicy(config)

InitChat ==
    /\ InitOf({"k1"}, {NoCase}, {<<>>}, StoragePolicies)
    /\ InitRest

SpecChat == InitChat /\ [][NextChat]_vars

----------------------------------------------------------------------------
(* The dashboard changes the storage setting, chat sessions start *)

NextConfig ==
    \/ ConfigServiceInit
    \/ \E save_full_chat \in BOOLEAN, db_ok \in BOOLEAN : UpdateSetting(save_full_chat, db_ok)
    \/ ChatSessionStart
    \/ ReadSetting

InitSettingStore ==
    /\ InitOf({"k1"}, {NoCase}, {<<>>}, {NoSettings})
    /\ InitAuth
    /\ InitValidators({<<>>})
    /\ generated = <<>>
    /\ InitConfig(ConfigDocuments)
    /\ InitUpload({0}, {1}, {1})

SpecConfig == InitSettingStore /\ [][NextConfig]_vars

----------------------------------------------------------------------------
(* One upload, every pattern of failures *)

NextUpload ==
    \/ \E outcome \in UploadOutcomes : AttemptBatch(outcome)
    \/ PassBatch
    \/ ReturnResult

InitOfUpload ==
    /\ InitOf({"k1"}, {NoCase}, {<<>>}, {NoSettings})
    /\ InitAuth /\ InitValidators({<<>>}) /\ generated = <<>> /\ InitConfig({NoDocument})
    /\ InitUpload(0..MaxChunks, 1..MaxBatchSize, 0..MaxUploadRetries)

\* The loop runs in one thread and every call and every sleep returns
SpecUpload == InitOfUpload /\ [][NextUpload]_vars /\ WF_vars(NextUpload)

----------------------------------------------------------------------------
(* Dashboard requests of two clients *)

NextAuth ==
    \E client \in Clients, method \in {"GET", "POST"}, path \in Paths,
       username \in {"admin", "eve"}, password \in {"secret", "guess"} :
       DashboardRequest(client, method, path, username, password)

InitDashboard ==
    /\ InitOf({"k1"}, {NoCase}, {<<>>}, {NoSettings})
    /\ InitRest

SpecAuth == InitDashboard /\ [][NextAuth]_vars

----------------------------------------------------------------------------
(* The field validators on one string *)

NextValidators == ValidateString

InitValidation ==
    /\ InitOf({"k1"}, {NoCase}, {<<>>}, {NoSettings})
    /\ InitAuth
    /\ InitValidators(ValidatorInputs)
    /\ generated = <<>>
    /\ InitConfig({NoDocument})
    /\ InitUpload({0}, {1}, {1})

SpecValidators == InitValidation /\ [][NextValidators]_vars

----------------------------------------------------------------------------
(* The cache getters called in any order while the credential changes *)

CallGetter(name, r) ==
    /\ SetCache(r.cache)
    /\ returned_chain' = [getter |-> name, chain |-> r.chain, key |-> api_key,
                          raised |-> r.raised]
    /\ UNCHANGED <<sessionVars, api_key, retryVars, envelopeVars, restVars, trimVars, chatVars>>

CallGetCachedLlmChain(vs_ok) ==
    CallGetter("llm", get_cached_llm_chain(CacheState, vs_ok))

CallGetCachedMediaLlmChain ==
    CallGetter("media", get_cached_media_llm_chain(CacheState))

CallGetCachedMediaDecisionChain ==
    CallGetter("decision", get_cached_media_decision_chain(CacheState))

NextCache ==
    \/ \E k \in Keys \cup {NoKey} : RotateKey(k)
    \/ \E vs_ok \in BOOLEAN : CallGetCachedLlmChain(vs_ok)
    \/ CallGetCachedMediaLlmChain
    \/ CallGetCachedMediaDecisionChain

InitCache ==
    /\ InitOf(Keys \cup {NoKey}, {NoCase}, {<<>>}, {NoSettings})
    /\ InitRest

SpecCache == InitCache /\ [][NextCache]_vars

----------------------------------------------------------------------------
(* One call of run_chain_with_retry against a service whose attempts end in any way *)

AttemptOutcomes == {Ok(Body), Quota, Failure}

CallRunChainWithRetry(outcomes) ==
    /\ retry_outcomes' = outcomes
    /\ retry_attempts' = run_chain_with_retry(outcomes).attempts
    /\ retry_result' = [raised |-> run_chain_with_retry(outcomes).raised,
                        content |-> run_chain_with_retry(outcomes).content]
    /\ UNCHANGED <<sessionVars, cacheVars, envelopeVars, restVars, trimVars, chatVars>>

NextRetry ==
    \E outcomes \in [1..ATTEMPT_LIMIT -> AttemptOutcomes] : CallRunChainWithRetry(outcomes)

InitRetry ==
    /\ InitOf({"k1"}, {NoCase}, {<<>>}, {NoSettings})
    /\ InitRest

SpecRetry == InitRetry /\ [][NextRetry]_vars

----------------------------------------------------------------------------
(* extract_variables_from_response applied to response texts *)

\* Applied to the text the specification starts with
ExtractVariables ==
    /\ ~ev_result.called
    /\ ev_result' = [called |-> TRUE,
                     include_media |-> extract_variables_from_response(ev_text).include_media,
                     keywords |-> extract_variables_from_response(ev_text).keywords]
    /\ UNCHANGED <<sessionVars, cacheVars, retryVars, ev_text, ev_case, restVars, trimVars, chatVars>>

NextEnvelope == ExtractVariables

InitEnvelope ==
    /\ InitOf({"k1"}, EnvelopeCases \cup PlainCases, {<<>>}, {NoSettings})
    /\ InitRest

SpecEnvelope == InitEnvelope /\ [][NextEnvelope]_vars

----------------------------------------------------------------------------
(* trim_chat_history applied to histories, and to the lists it returned *)

\* Content lengths: empty, one with which a user and an assistant turn fill the budget
\* exactly (999 + 1001 tokens), and one that is over the budget alone
ContentChars == {0, 3980, 8000}

HistoryTurns == [role : {"user", "assistant", "system"}, chars : ContentChars]

Histories == SeqsUpTo(HistoryTurns, MaxHistory)

\* cl.chat_context.to_openai() of a list of messages
AsHistory(msgs) ==
    [i \in 1..Len(msgs) |->
        [role |-> IF msgs[i].type = "human" THEN "user" ELSE "assistant",
         chars |-> msgs[i].chars]]

\* Applied to the history the specification starts with
TrimHistory ==
    /\ trim_prev.calls = 0
    /\ trim_output' = trim_chat_history(trim_input)
    /\ trim_prev' = [calls |-> 1, messages |-> <<>>]
    /\ UNCHANGED <<sessionVars, cacheVars, retryVars, envelopeVars, restVars, trim_input, chatVars>>

\* The trimmer is applied to the turns it returned
TrimAgain ==
    /\ trim_prev.calls = 1
    /\ trim_input' = AsHistory(trim_output)
    /\ trim_output' = trim_chat_history(AsHistory(trim_output))
    /\ trim_prev' = [calls |-> 2, messages |-> trim_output]
    /\ UNCHANGED <<sessionVars, cacheVars, retryVars, envelopeVars, restVars, chatVars>>

NextTrim == TrimHistory \/ TrimAgain

InitTrim ==
    /\ InitOf({"k1"}, {NoCase}, Histories, {NoSettings})
    /\ InitRest

SpecTrim == InitTrim /\ [][NextTrim]_vars

----------------------------------------------------------------------------
(* Properties *)

\* The stored identity record holds all four fields and each passes its validator
RecordComplete == Missing(kyc) = {} /\ ValidationErrors(kyc) = {}

\* C1: a turn of handle_kyc returns True if and only if, at the end of the turn, the
\* stored record holds name, email, mobile and faculty and each passes its validator
C1_CompletionIffAllValid ==
    (pc = "idle" /\ kyc_result \in {"True", "False"}) =>
        ((kyc_result = "True") <=> RecordComplete)

\* C2: save_user_data_to_collection is called once in a session that is complete, in
\* the step that makes it complete, and never in a session that is not; the stored
\* user document is the session's record
C2_SavedExactlyOnce ==
    /\ save_calls = (IF is_kyc_complete THEN 1 ELSE 0)
    /\ users_collection # EmptyDict =>
          /\ is_kyc_complete
          /\ DOMAIN users_collection = {SessionId}
          /\ users_collection[SessionId] = UserDoc(kyc)

\* C2 witness: a complete session has answered a later message and has saved once
C2_Witness ==
    /\ is_kyc_complete
    /\ pc = "idle"
    /\ kyc_result = "not_called"
    /\ save_calls = 1
    /\ users_collection # EmptyDict

\* C3: after the session became complete, the history handed to the trimmer holds no
\* message exchanged during identity collection
C3_HistoryWithoutKycTurns ==
    (is_kyc_complete /\ kyc_result = "not_called") =>
        \A i \in DOMAIN history : history[i].phase # "kyc"

\* C4: when a turn has ended, however handle_kyc ended, the stored record holds no
\* email, mobile or faculty that fails its validator
C4_NoInvalidFieldStored ==
    pc = "idle" => ValidationErrors(kyc) = {}

C6_HandleKycNeverRaises ==
    kyc_result # "raised"

\* C7: after every stream_token call the visible text does not contain the sentinel
\* (text that followed the sentinel is streamed after it, so it cannot be visible
\* unless the sentinel is)
C7_NoSentinelWhileStreaming ==
    pc \in {"kyc_stream", "main_stream"} => ~Contains(msg, END_TOKEN)

\* C8: when a turn has finished, the message holds no sentinel, and if the generator's
\* text held one the message is that text cut at its first occurrence (the guidance
\* path shows its placeholder instead of a blank text)
C8_FinalContentClean ==
    pc = "idle" =>
        /\ ~Contains(msg, END_TOKEN)
        /\ Contains(response_text, END_TOKEN) =>
              \/ msg = SplitFirst(response_text, END_TOKEN)
              \/ /\ kyc_result \in {"True", "False"}
                 /\ Strip(SplitFirst(response_text, END_TOKEN)) = <<>>
                 /\ msg = KYC_WAIT_MSG

\* C8 witness: an answer whose text held the sentinel has been streamed and finalized
\* with only the text before it
C8_Witness ==
    /\ pc = "idle"
    /\ kyc_result \in {"None", "not_called"}
    /\ response_text = <<"a","b">> \o END_TOKEN \o <<"x","y">>
    /\ msg = <<"a","b">>

\* The attempts the retry policy asks for: up to the first attempt that does not fail
\* with quota-exceeded, at most ATTEMPT_LIMIT
RECURSIVE AttemptsDue(_, _)
AttemptsDue(outcomes, i) ==
    IF i < ATTEMPT_LIMIT /\ outcomes[i].kind = "quota" THEN AttemptsDue(outcomes, i + 1) ELSE i

\* C9: a call that fails with quota-exceeded is attempted again, at most 5 attempts are
\* made, and when the 5th also fails with quota-exceeded the error is re-raised
C9_RetriesOnQuota ==
    retry_attempts > 0 =>
        /\ retry_attempts = AttemptsDue(retry_outcomes, 1)
        /\ (\A i \in 1..ATTEMPT_LIMIT : retry_outcomes[i].kind = "quota") =>
              retry_result.raised = "ResourceExhausted"

\* C10: the chain a getter returns was built with the credential current at the call
C10_ChainBuiltWithCurrentKey ==
    returned_chain.chain # NoChain => returned_chain.chain = returned_chain.key

\* The text holds an opening 'include_media=<flag>,keywords=(' of an envelope
HasEnvelopeHead(text) == \E flag \in DOMAIN FlagTexts : Contains(text, EnvelopeHead(flag))

\* C14 as stated: a response text without the sentinel yields (False, [])
C14_NoSentinelGivesDefault ==
    (ev_result.called /\ ~Contains(ev_text, END_TOKEN)) =>
        (~ev_result.include_media /\ ev_result.keywords = <<>>)

\* C14: a response text that holds no 'include_media=<flag>,keywords=(' clause, with
\* or without the sentinel, yields (False, [])
C14_NoEnvelopeGivesDefault ==
    (ev_result.called /\ ~HasEnvelopeHead(ev_text)) =>
        (~ev_result.include_media /\ ev_result.keywords = <<>>)

\* C14 witness: a text that mentions include_media=true but has no keyword clause was
\* parsed to the default
C14_Witness ==
    /\ ev_result.called
    /\ ev_text = INCLUDE_MEDIA \o FlagTexts["true"]
    /\ ev_result.include_media = FALSE

\* The keywords an envelope written from these items stands for: each item stripped,
\* empty items dropped
RECURSIVE KeywordsExpected(_)
KeywordsExpected(items) ==
    IF items = <<>> THEN <<>>
    ELSE (IF Strip(Head(items)) = <<>> THEN <<>> ELSE <<Strip(Head(items))>>)
            \o KeywordsExpected(Tail(items))

\* C15 as stated: for every flag and every keyword list, bare or after the sentinel,
\* the flag returned is the flag written and the list returned is the keywords written
C15_EnvelopeParsedBothFormats ==
    (ev_result.called /\ ev_case.kind = "envelope") =>
        /\ ev_result.include_media = (ev_case.flag = "true")
        /\ ev_result.keywords = KeywordsExpected(ev_case.items)

\* C15: the same, for keyword lists none of whose items holds a closing parenthesis;
\* and include_media=false with no keyword clause yields (False, [])
C15_EnvelopeParsedWithoutParen ==
    /\ (ev_result.called /\ ev_case.kind = "envelope"
          /\ \A i \in 1..Len(ev_case.items) : ~Contains(ev_case.items[i], <<")">>)) =>
          /\ ev_result.include_media = (ev_case.flag = "true")
          /\ ev_result.keywords = KeywordsExpected(ev_case.items)
    /\ (ev_result.called /\ ev_text = INCLUDE_MEDIA \o FlagTexts["false"]) =>
          (~ev_result.include_media /\ ev_result.keywords = <<>>)

\* C15 witness: an old-format envelope with padded and empty items was parsed to its
\* two keywords
C15_Witness ==
    /\ ev_result.called
    /\ ev_case.kind = "envelope" /\ ev_case.prefix # <<>> /\ ev_case.flag = "true"
    /\ ev_case.items = << <<" ","l","a","b"," ">>, <<>> >>
    /\ ev_result.keywords = << <<"l","a","b">> >>

\* The user/assistant turns of the trimmer's input, as messages
TrimmedFrom == ToMessages(trim_input)

\* Within budget; when not empty, from a human message to an AI message
WellFormedWindow(msgs) ==
    /\ count_tokens_approximately(msgs) <= MAX_HISTORY_TOKENS
    /\ msgs # <<>> => (Head(msgs).type = "human" /\ msgs[Len(msgs)].type = "ai")
    /\ \A i \in 1..Len(msgs) : msgs[i].type \in {"human", "ai"}

\* C16 as stated: the result is a suffix of the input's user/assistant turns, whole and
\* unmodified, within MAX_HISTORY_TOKENS, from a user turn to an assistant turn
C16_TrimIsSuffix ==
    trim_prev.calls > 0 =>
    /\ \E k \in 0..Len(TrimmedFrom) :
          trim_output = SubSeq(TrimmedFrom, k + 1, Len(TrimmedFrom))
    /\ WellFormedWindow(trim_output)

\* C16: the result is a contiguous run of the input's user/assistant turns, whole and
\* unmodified, that ends at the last assistant turn of the input (only turns after the
\* last assistant turn follow it), within MAX_HISTORY_TOKENS, from a user turn to an
\* assistant turn; turns of other roles never appear in it
C16_TrimIsRunToLastAssistant ==
    trim_prev.calls > 0 =>
    /\ \E i \in 1..(Len(TrimmedFrom) + 1), j \in 0..Len(TrimmedFrom) :
          /\ trim_output = SubSeq(TrimmedFrom, i, j)
          /\ trim_output # <<>> =>
                \A k \in (j + 1)..Len(TrimmedFrom) : TrimmedFrom[k].type # "ai"
    /\ WellFormedWindow(trim_output)

\* C16 witness: a history over the budget, with a system turn, was cut to its last
\* user and assistant turns, which fill the budget exactly
C16_Witness ==
    /\ trim_prev.calls = 1
    /\ trim_input = << [role |-> "assistant", chars |-> 0], [role |-> "user", chars |-> 3980],
                       [role |-> "assistant", chars |-> 3980] >>
    /\ trim_output = << [type |-> "human", chars |-> 3980], [type |-> "ai", chars |-> 3980] >>

\* A history within budget that starts on a user turn and ends on an assistant turn
FitsAlready(h) ==
    /\ h # <<>>
    /\ h[1].role = "user" /\ h[Len(h)].role = "assistant"
    /\ count_tokens_approximately(ToMessages(h)) <= MAX_HISTORY_TOKENS

\* C17 as stated: trimming the returned turns returns them again, and every history
\* that fits the budget, starts on a user turn and ends on an assistant turn is
\* returned unchanged
C17_TrimIdempotent ==
    /\ trim_prev.calls = 2 => trim_output = trim_prev.messages
    /\ (trim_prev.calls > 0 /\ FitsAlready(trim_input)) => AsHistory(trim_output) = trim_input

\* C17: trimming the returned turns returns them again, and a history made of user
\* and assistant turns only that fits the budget, starts on a user turn and ends on an
\* assistant turn is returned unchanged
C17_TrimIdempotentOnTurns ==
    /\ trim_prev.calls = 2 => trim_output = trim_prev.messages
    /\ (trim_prev.calls > 0 /\ FitsAlready(trim_input)
          /\ \A i \in 1..Len(trim_input) : trim_input[i].role \in {"user", "assistant"}) =>
          AsHistory(trim_output) = trim_input

\* C17 witness: a returned list that fills the budget exactly was trimmed again
C17_Witness ==
    /\ trim_prev.calls = 2
    /\ Len(trim_prev.messages) = 2
    /\ count_tokens_approximately(trim_prev.messages) = MAX_HISTORY_TOKENS
    /\ trim_output = trim_prev.messages

----------------------------------------------------------------------------
(* Order of the stages of a chat turn *)

\* The stages of a turn in the order of handle_message's try block
STAGE_ORDER ==
    <<"trim", "decide", "search", "select", "reformulate", "retrieve", "generate",
      "stream", "media", "log">>

\* The stages of run that order names, each after the ones before it in order
InOrder(run, order) ==
    LET named == SelectSeq(run, LAMBDA stage : \E k \in 1..Len(order) : order[k] = stage)
        position(stage) == CHOOSE k \in 1..Len(order) : order[k] = stage
    IN  \A i, j \in 1..Len(named) : i < j => position(named[i]) < position(named[j])

----------------------------------------------------------------------------
(* Media attached to the reply *)

\* C12 as stated: the media attached to a reply are at most 3 images and at most 3
\* videos, whatever the catalog holds and whatever the selector outputs
C12_AtMostThreeEach ==
    /\ Len(elements.images) <= 3
    /\ Len(elements.videos) <= 3

\* The last message went through the answer pipeline and the selector was called
SelectorCalled ==
    /\ kyc_result \in {"None", "not_called"}
    /\ selection.made

\* C13 as stated: when the selector's output is not JSON, or is JSON but not an object
\* with the expected list fields, the first 3 images and first 3 videos found are used,
\* the turn goes on to generate, stream and log, and no error message is shown
C13_MalformedFallsBack ==
    (SelectorCalled /\ selection.selector \in {"bad_json", "not_object", "no_fields"}) =>
        /\ ~error_shown
        /\ selected_images = FirstN(selection.catalog.images, 3)
        /\ selected_videos = FirstN(selection.catalog.videos, 3)
        /\ \E i \in 1..Len(stages) : stages[i] = "generate"
        /\ pc = "idle" => stages[Len(stages)] = "log"

----------------------------------------------------------------------------
(* Storage policy and interaction log *)

\* A step that ends a streamed chat turn (the one that calls save_interaction_data)
TurnLogged == pc = "main_stream" /\ pc' = "idle"

\* C18: the storage mode of the session never changes after session start, whatever
\* happens to the policy in the configuration store, and every turn is logged
\* according to it: nothing when it is None, into the chat history collection only
\* when it is chat_history, into the questions collection only when it is questions
C18_PolicyReadOnce ==
    [][ /\ storage_mode' = storage_mode
        /\ chat_history_collection' # chat_history_collection =>
              TurnLogged /\ storage_mode = "chat_history"
        /\ questions_collection' # questions_collection =>
              TurnLogged /\ storage_mode = "questions"
        /\ (TurnLogged /\ write_failed' = "none") =>
              /\ storage_mode = "chat_history" =>
                    chat_history_collection' # chat_history_collection
              /\ storage_mode = "questions" =>
                    questions_collection' # questions_collection ]_vars

\* C18 witness: the policy in the store says full-turn logging, the session read
\* question-only logging at start, and two turns were logged as questions only
C18_Witness ==
    /\ pc = "idle"
    /\ storage_mode = "questions"
    /\ get_storage_config(chat_storage, TRUE) = "chat_history"
    /\ Len(questions_collection) = 2
    /\ chat_history_collection = <<>>

\* C19: a call of save_interaction_data whose writes succeed adds nothing when the
\* session's mode is None; adds two records to the chat history collection, the user's
\* question then the assistant's answer with the same session id and timestamp, when it
\* is chat_history; adds one record holding the session id, the timestamp and the
\* question only to the questions collection when it is questions
C19_RecordsPerMode ==
    [][ (TurnLogged /\ write_failed' = "none") =>
          LET question == UserInput(turn)
          IN  /\ storage_mode = NoMode =>
                    UNCHANGED <<chat_history_collection, questions_collection>>
              /\ storage_mode = "chat_history" =>
                    /\ UNCHANGED questions_collection
                    /\ chat_history_collection' = chat_history_collection \o
                          << [session_id |-> SessionId, timestamp |-> turn,
                              role |-> "user", content |-> question],
                             [session_id |-> SessionId, timestamp |-> turn,
                              role |-> "assistant", content |-> response_text] >>
              /\ storage_mode = "questions" =>
                    /\ UNCHANGED chat_history_collection
                    /\ questions_collection' = questions_collection \o
                          << [session_id |-> SessionId, timestamp |-> turn,
                              question |-> question] >> ]_vars

\* C19 witness: a turn was logged in full, question and answer with one timestamp
C19_Witness ==
    /\ pc = "idle"
    /\ write_failed = "none"
    /\ Len(chat_history_collection) = 2
    /\ chat_history_collection[1].role = "user"
    /\ chat_history_collection[2].role = "assistant"
    /\ chat_history_collection[2].content = response_text
    /\ chat_history_collection[1].timestamp = chat_history_collection[2].timestamp

----------------------------------------------------------------------------
(* Failures of the logging and persistence writes *)

\* C20: a step in which a write of the interaction log or the upsert of the identity
\* record raises sends no error message and ends the turn as it ends when the write
\* succeeds: the streamed answer is finalized and the media shown, or the completion
\* of KYC is recorded in the session and returned
C20_WriteFailureUnseen ==
    [][ /\ (TurnLogged /\ write_failed' = "log") =>
              /\ pc' = "idle"
              /\ ~error_shown'
              /\ msg' = SafetyCheck(msg)
              /\ elements' = Elements(selected_images, selected_videos)
              /\ stages'[Len(stages')] = "log"
        /\ (write_failed # "upsert" /\ write_failed' = "upsert") =>
              /\ ~error_shown'
              /\ pc' = "idle"
              /\ is_kyc_complete'
              /\ kyc_result' = "True"
              /\ users_collection' = users_collection ]_vars

\* C20 witness: the identity upsert failed when KYC completed, and later the second
\* write of a fully logged turn failed after the answer was shown
C20_Witness ==
    /\ pc = "idle"
    /\ is_kyc_complete
    /\ SessionId \notin DOMAIN users_collection
    /\ write_failed = "log"
    /\ Len(chat_history_collection) = 1
    /\ msg # <<>>
    /\ ~error_shown

----------------------------------------------------------------------------
(* Error messages shown to the user *)

\* C21 as stated: every error message sent to the conversation by the answer pipeline
\* is a fixed text that carries no exception message or other detail of the failure
C21_ErrorsAreCanned ==
    error_shown => error_msg.detail = NoDetail

----------------------------------------------------------------------------
(* Dashboard authentication *)

\* A login that verify_user accepted, with no logout after it
LoggedIn(log) ==
    \E i \in 1..Len(log) : log[i] = "accepted" /\ \A j \in (i + 1)..Len(log) : log[j] # "logout"

\* C22: the handler of a protected route runs only for a client whose session was set
\* by an accepted login and not cleared by a logout since; any other request to a
\* protected route is answered with a redirect to /login and no handler runs
C22_ProtectedNeedsLogin ==
    [][ (auth_requests' # auth_requests /\ ~IsPublic(auth_response'.path)) =>
          /\ auth_response'.handler # "none" <=> LoggedIn(auth_log[auth_response'.client])
          /\ auth_response'.handler = "none" =>
                /\ auth_response'.status = 302
                /\ auth_response'.location = PATH_LOGIN ]_vars

\* C22 witness: a client that logged in, logged out and asked for the dashboard was
\* redirected, while the other client, logged in, is still served
C22_Witness ==
    /\ auth_response.client = "c1"
    /\ auth_response.path = PATH_DASHBOARD
    /\ auth_response.handler = "none"
    /\ auth_log["c1"] = <<"accepted", "logout">>
    /\ auth_session["c2"].present

----------------------------------------------------------------------------
(* Field validators *)

\* An optional "+", then 10 to 15 decimal digits, and nothing else
PlainMobile(t) ==
    LET digits == IF t # <<>> /\ Head(t) = "+" THEN Tail(t) ELSE t
    IN  /\ Len(digits) >= 10
        /\ Len(digits) <= 15
        /\ \A k \in 1..Len(digits) : digits[k] \in Digits

\* C24 as stated: is_valid_mobile accepts a string if and only if the whole string is
\* an optional "+" followed by 10 to 15 decimal digits and nothing else
C24_MobileExact ==
    val_result.called => (val_result.mobile <=> PlainMobile(val_input))

\* The whole string is local@domain.tld with non-empty parts that contain no "@"
PlainEmail(t) ==
    \E i \in 2..Len(t) : \E j \in (i + 2)..(Len(t) - 1) :
        /\ t[i] = "@"
        /\ t[j] = "."
        /\ \A k \in 1..Len(t) : k # i => t[k] # "@"

\* C25 as stated: is_valid_email accepts a string if and only if the whole string has
\* the form local@domain.tld with non-empty parts that contain no "@"
C25_EmailExact ==
    val_result.called => (val_result.email <=> PlainEmail(val_input))

\* Equal up to the case of letters
SameIgnoringCase(a, b) ==
    /\ Len(a) = Len(b)
    /\ \A k \in 1..Len(a) :
          \/ a[k] = b[k]
          \/ a[k] \in DOMAIN UpperToLower /\ UpperToLower[a[k]] = b[k]
          \/ b[k] \in DOMAIN UpperToLower /\ UpperToLower[b[k]] = a[k]

\* C26: is_valid_faculty accepts a string if and only if it equals, up to letter case,
\* one of the six names of FACULTIES
C26_FacultyCaseInsensitive ==
    val_result.called =>
        /\ Len(FACULTIES) = 6
        /\ val_result.faculty <=>
              \E n \in 1..Len(FACULTIES) : SameIgnoringCase(val_input, FACULTIES[n])

\* C26 witness: a catalog name in capitals was accepted
C26_Witness ==
    /\ val_result.called
    /\ val_result.faculty
    /\ val_input = Upper(FACULTIES[4])

----------------------------------------------------------------------------
(* NOT_STARTED, COLLECTING and the answer pipeline *)

\* A message was handed to handle_message in this step
MessageReceived == turn' = turn + 1

\* The step's message went through the answer pipeline (handle_kyc returned None or
\* was not called)
AnswerPipelineReached == kyc_result' \in {"None", "not_called"}

\* C23: a session leaves NOT_STARTED exactly on a message for which
\* detect_application_intent is true; that message is answered with the welcome and
\* reaches neither the extraction nor the answer pipeline; a message without intent
\* leaves the session in NOT_STARTED and is answered by the answer pipeline; from
\* COLLECTING until COMPLETE no message reaches the answer pipeline
C23_IntentStartsKyc ==
    [][ MessageReceived =>
          /\ (~kyc_started /\ ~is_kyc_complete) =>
                /\ intent' \in {"True", "False"}
                /\ kyc_started' <=> intent' = "True"
                /\ intent' = "True" =>
                      /\ Len(chat_context') >= Len(chat_context) + 2
                      /\ chat_context'[Len(chat_context) + 2] =
                            Entry("assistant", "welcome", "kyc")
                      /\ kyc' = kyc
                      /\ ~AnswerPipelineReached
                      /\ stages' = stages /\ history' = history
                /\ intent' = "False" =>
                      /\ AnswerPipelineReached
                      /\ kyc' = kyc
          /\ (kyc_started /\ ~is_kyc_complete) =>
                /\ ~AnswerPipelineReached
                /\ stages' = stages /\ history' = history ]_vars

\* C23 witness: a message without intent was answered by the pipeline, a later one
\* started KYC, and a message after that was taken by the collection
C23_Witness ==
    /\ kyc_started /\ ~is_kyc_complete
    /\ intent = "not_called"
    /\ kyc_result = "False"
    /\ turn = 3
    /\ history # <<>>

----------------------------------------------------------------------------
(* Completion status of a streamed guidance *)

\* COMPLETION_STATUS=true stands after the sentinel in the text
StatusAfterSentinel(text) ==
    /\ Contains(text, END_TOKEN)
    /\ Contains(SubSeq(text, Len(SplitFirst(text, END_TOKEN)) + Len(END_TOKEN) + 1, Len(text)),
                STATUS_TRUE)

\* handle_kyc returns from its streaming branch in this step
StreamReturns == pc = "kyc_stream" /\ pc' = "idle"

\* C27 as stated: when the generator's whole output holds COMPLETION_STATUS=true after
\* the sentinel, the streaming branch of handle_kyc returns True, however the stream
\* was cut into chunks
C27_StatusFromFullText ==
    [][ (StreamReturns /\ StatusAfterSentinel(generated)) => kyc_result' = "True" ]_vars

----------------------------------------------------------------------------
(* Dashboard and chatbot on the storage setting *)

\* The mode a chat session should read after update_chat_storage_setting(b)
ModeFor(save_full_chat) == IF save_full_chat THEN "chat_history" ELSE "questions"

\* C28 as stated: after update_chat_storage_setting(save_full_chat=b) succeeded, a chat
\* session started afterwards reads "chat_history" if b and "questions" if not, the
\* mode under which the dashboard, by its own get_chat_storage_setting, stores
C28_PolicyAgreed ==
    ( /\ cfg_update.called /\ cfg_update.success
      /\ cfg_mode # "not_read"
      /\ save_chat_interaction(get_chat_storage_setting(cfg_doc)) # NoMode ) =>
        /\ cfg_mode = ModeFor(cfg_update.save_full_chat)
        /\ cfg_mode = save_chat_interaction(get_chat_storage_setting(cfg_doc))

----------------------------------------------------------------------------
(* Batched upload: attempts and accounting *)

\* Number of batches of the upload
BatchCount == (total_chunks + batch_size - 1) \div batch_size

\* Chunks covered by the first n entries of failed_batches
RECURSIVE FailedChunks(_)
FailedChunks(n) ==
    IF n = 0 THEN 0
    ELSE FailedChunks(n - 1) + (failed_batches[n].end_chunk - failed_batches[n].start_chunk)

\* C29: with batch_size >= 1 and max_retries >= 1 the upload returns, whatever the
\* calls do; no batch is attempted more than max_retries times and, on return, each
\* was attempted at least once; only a quota error is followed by another attempt of
\* the same batch; on return successful_chunks plus the chunks of failed_batches is
\* total_chunks
C29_BatchesAccounted ==
    /\ []( (batch_size >= 1 /\ max_retries >= 1) =>
             /\ \A b \in 1..Len(upload_log) :
                   /\ Len(upload_log[b]) <= max_retries
                   /\ \A i \in 1..(Len(upload_log[b]) - 1) : upload_log[b][i] = "quota"
             /\ upload_pc = "done" =>
                   /\ Len(upload_log) = BatchCount
                   /\ \A b \in 1..BatchCount : Len(upload_log[b]) >= 1
                   /\ successful_chunks + FailedChunks(Len(failed_batches)) = total_chunks )
    /\ <>( (batch_size >= 1 /\ max_retries >= 1) => upload_pc = "done" )

\* C29 witness: an upload of three batches returned; the first went through at once,
\* the second was given up after max_retries quota errors, the third failed at once
\* on another error
C29_Witness ==
    /\ upload_pc = "done"
    /\ batch_size = 1 /\ max_retries = 3 /\ total_chunks = 3
    /\ upload_log = << <<"ok">>, <<"quota", "quota", "quota">>, <<"other">> >>
    /\ successful_chunks = 1
    /\ Len(failed_batches) = 2

----------------------------------------------------------------------------
(* Questions over the input limit *)

====
